---- MODULE Spec2Model ----
(***************************************************************************)
(* Persistence and identity subsystem of the course-tracking application:  *)
(* the profiles / progress / quizResults object stores (storage/db.js),    *)
(* the profile store (storage/profiles.js), the progress store             *)
(* (storage/progress.js), the quiz-result store (storage/quizzes.js), the  *)
(* import/export serializer (storage/importExport.js) and the credential   *)
(* derivation (storage/crypto.js).                                         *)
(*                                                                         *)
(* Every store method is an async function.  A method that awaits between  *)
(* a read and a write is split into one action per database transaction,   *)
(* with the values it holds across the await kept in `calls`.  A method    *)
(* that opens an explicit multi-store readwrite transaction works on a     *)
(* private copy of the stores (`tx`) that replaces the committed stores    *)
(* on commit and is dropped on abort; while it is active every other       *)
(* database access waits, as the engine serialises transactions whose      *)
(* scopes overlap.                                                         *)
(*                                                                         *)
(* The specifications share the actions and differ in the methods and     *)
(* arguments they draw: SpecProfiles (the profile store, interleaved),     *)
(* SpecPins (the profile store, one method at a time, every name and pin), *)
(* SpecFrame (the same under a running clock), SpecData (profiles with the *)
(* progress and quiz rows that reference them), SpecProgress (the progress *)
(* store under a running clock), SpecQuiz (the quiz-result store, one      *)
(* method at a time), SpecRoundTrip (export and import of a profile),      *)
(* SpecDb (the database handle), SpecRace (calls on one profile that       *)
(* overlap), SpecVerify (SpecPins with verifyProfilePin calls), SpecApp    *)
(* (App.jsx: the cached best scores of one session), SpecGate              *)
(* (ProfileGate.jsx: its handlers over the store and the active-profile    *)
(* pointer of storage/settings.js) and SpecSession (the same across page   *)
(* loads).                                                                 *)
(***************************************************************************)
EXTENDS Integers, Sequences, FiniteSets, TLC

VARIABLES
    profiles,     \* rows of object store 'profiles'    (keyPath profileId)
    progress,     \* rows of object store 'progress'    (keyPath [profileId, lessonId])
    quizResults,  \* rows of object store 'quizResults' (keyPath id, autoIncrement)
    keyGen,       \* the autoIncrement key generator of 'quizResults'
    nextId,       \* the number of profile ids newId() has handed out
    now,          \* the wall clock read by nowIso()
    tx,           \* the explicit readwrite transaction in progress, or NoTx
    calls,        \* store methods suspended between their read and their write
    last,         \* the store method that settled last, and how it settled
    curPin,       \* history: per profile id, the pin of the last call that set or cleared it
    file,         \* the snapshot file exported last, with what it was taken from
    db,           \* storage/db.js: the module's dbPromise, with the opens and handles so far
    app,          \* App.jsx: the component's state (profile, quizResults), its awaits
    gate,         \* ProfileGate.jsx: the component's state and its suspended handlers
    activeProfileId,  \* storage/settings.js: localStorage['eda.activeProfileId'], 0 when unset
    lin           \* history: per profile id, what the calls so far can have made of the profile

vars == <<profiles, progress, quizResults, keyGen, nextId, now, tx, calls, last, curPin,
          file, db, app, gate, activeProfileId, lin>>

stores == <<profiles, progress, quizResults, keyGen>>

(***************************************************************************)
(* Bounds of the model.                                                    *)
(***************************************************************************)
MaxIds == 2        \* profile ids newId() can hand out
MaxTime == 2       \* clock readings
MaxQuizKeys == 3   \* keys the quizResults key generator can hand out
MaxInFlight == 2   \* store methods suspended at the same time
MaxCallers == 6    \* callers of getDb()
MaxOpens == 2      \* times openDB() can be started

(***************************************************************************)
(* Values.  Strings are sequences of characters; null, undefined and ''    *)
(* are the empty sequence.  A nullable timestamp or hash v is <<v>>.       *)
(***************************************************************************)
Null == << >>

Some(v) == <<v>>

NoTx == [op |-> "none"]

\* profile ids: those newId() can hand out, and one it never does
ProfileIds == 1..(MaxIds + 1)

LessonIds == {"l1", "l2"}

QuizIds == {"q1", "q2"}

\* score arguments, out of 10 questions
Scores == {6, 9, 7}

\* name arguments: '', ' ', 'a', ' b '
NameInputs == { << >>, <<" ">>, <<"a">>, <<" ", "b", " ">> }

\* pin arguments: absent (null / undefined / ''), '12', '1234', '4321'
PinInputs == { << >>, <<"1", "2">>, <<"1", "2", "3", "4">>, <<"4", "3", "2", "1">> }

\* the bytes crypto.getRandomValues can fill the salt with
SaltBytes == { <<0>>, <<255>> }

(***************************************************************************)
(* JavaScript helpers.                                                     *)
(***************************************************************************)
\* !s is false: s is neither null / undefined nor the empty string
Truthy(s) == s # << >>

RECURSIVE TrimStart(_)
TrimStart(s) == IF s # << >> /\ Head(s) = " " THEN TrimStart(Tail(s)) ELSE s

RECURSIVE TrimEnd(_)
TrimEnd(s) == IF s # << >> /\ s[Len(s)] = " " THEN TrimEnd(SubSeq(s, 1, Len(s) - 1)) ELSE s

\* String(name).trim()
Trim(s) == TrimEnd(TrimStart(s))

\* Math.round(x / y * 100) for integers x >= 0, y > 0
RoundPercent(x, y) == (200 * x + y) \div (2 * y)

\* the number Math.round yields for 0 / 0
NaN == -1

\* Math.round(x / y * 100) as the stores compute it, for x = 0 when y = 0
MathRoundPercent(x, y) == IF y = 0 THEN NaN ELSE RoundPercent(x, y)

\* a > b on numbers: false when either is NaN
Greater(a, b) == a # NaN /\ b # NaN /\ a > b

(***************************************************************************)
(* storage/crypto.js.  A base64 string is the sequence of its sextets,     *)
(* with Pad for '='.                                                       *)
(***************************************************************************)
Pad == 64

RECURSIVE toBase64(_)
toBase64(bytes) ==
    IF bytes = << >> THEN << >>
    ELSE IF Len(bytes) = 1 THEN
        << bytes[1] \div 4, (bytes[1] % 4) * 16, Pad, Pad >>
    ELSE IF Len(bytes) = 2 THEN
        << bytes[1] \div 4, (bytes[1] % 4) * 16 + bytes[2] \div 16,
           (bytes[2] % 16) * 4, Pad >>
    ELSE
        << bytes[1] \div 4, (bytes[1] % 4) * 16 + bytes[2] \div 16,
           (bytes[2] % 16) * 4 + bytes[3] \div 64, bytes[3] % 64 >>
        \o toBase64(SubSeq(bytes, 4, Len(bytes)))

RECURSIVE fromBase64(_)
fromBase64(b64) ==
    IF Len(b64) < 4 THEN << >>
    ELSE IF b64[3] = Pad THEN
        << b64[1] * 4 + b64[2] \div 16 >>
    ELSE IF b64[4] = Pad THEN
        << b64[1] * 4 + b64[2] \div 16, (b64[2] % 16) * 16 + b64[3] \div 4 >>
    ELSE
        << b64[1] * 4 + b64[2] \div 16, (b64[2] % 16) * 16 + b64[3] \div 4,
           (b64[3] % 4) * 64 + b64[4] >>
        \o fromBase64(SubSeq(b64, 5, Len(b64)))

\* generateSaltBase64 with the random bytes it drew
generateSaltBase64(bytes) == toBase64(bytes)

\* PBKDF2-SHA256 cannot be computed here: the derived bits are the pair of
\* what was derived from, so that equal (pin, salt) give equal bits and
\* different ones different bits.  The returned value stands for the base64
\* string of those bits.
derivePinHashBase64(pin, saltBase64) == << [pw |-> pin, salt |-> fromBase64(saltBase64)] >>

(***************************************************************************)
(* storage/db.js: the object stores and their key paths.                   *)
(***************************************************************************)
ProfileKey(row) == row.profileId

\* mutant: keyPath 'profileId' for the progress store
ProgressKeyProfileOnly(row) == row.profileId

ProgressKey(row) == << row.profileId, row.lessonId >>

QuizKey(row) == row.id

\* IDBObjectStore.put: insert, or overwrite the row with the same key
PutProfile(rows, row) == { r \in rows : ProfileKey(r) # ProfileKey(row) } \cup { row }

\* mutant: the row is inserted beside the row with the same key
PutProgressBeside(rows, row) == rows \cup { row }

PutProgress(rows, row) == { r \in rows : ProgressKey(r) # ProgressKey(row) } \cup { row }

\* IDBObjectStore.add on the autoIncrement store: the row gets the next key
\* mutant: the new row takes the place of the rows of the same profile and quiz
AddQuizOverAttempts(rows, gen, row) ==
    { r \in rows : r.profileId # row.profileId \/ r.quizId # row.quizId }
        \cup {[row EXCEPT !.id = gen + 1]}

AddQuiz(rows, gen, row) == rows \cup { [row EXCEPT !.id = gen + 1] }

\* IDBObjectStore.get: the row with that key, as Some(row), or Null
GetProfile(rows, profileId) ==
    IF \E r \in rows : ProfileKey(r) = profileId
    THEN Some(CHOOSE r \in rows : ProfileKey(r) = profileId)
    ELSE Null

\* mutant: the index yields the rows of every profile
byProfileIdAnyProfile(rows, profileId) == rows

\* index 'byProfileId' of a store
byProfileId(rows, profileId) == { r \in rows : r.profileId = profileId }

(***************************************************************************)
(* Bookkeeping of the model.                                               *)
(***************************************************************************)
\* no explicit transaction holds the stores: a database request can run
DbFree == tx = NoTx

\* a further store method can be suspended
CanSuspend == Cardinality(calls) < MaxInFlight

\* no store method is under way
Idle == calls = {} /\ tx = NoTx

\* the store method `op` settles with `outcome`; rep: it repeats the call before it
Settle(op, pid, arg, outcome) ==
    last' = [op |-> op, pid |-> pid, arg |-> arg, outcome |-> outcome,
             rep |-> (arg # "" /\ last.outcome = "ok" /\ last.op = op
                      /\ last.pid = pid /\ last.arg = arg)]

NoCall == [op |-> "none", pid |-> 0, arg |-> "", outcome |-> "none", rep |-> FALSE]

(***************************************************************************)
(* storage/profiles.js                                                     *)
(***************************************************************************)
nowIso == now

\* newId(): an id never handed out before
newId == nextId + 1

\* getProfile(profileId)
getProfile(profileId) == GetProfile(profiles, profileId)

\* listProfiles() as the set of rows it returns (the order is for display)
listProfiles == profiles

\* mutant: the guard without the trim
NameRejectedUntrimmed(name) == ~Truthy(name)

\* the guard of createProfile and renameProfile
NameRejected(name) == ~Truthy(name) \/ ~Truthy(Trim(name))

\* the guard of setProfilePin
PinRejected(pin) == ~Truthy(pin) \/ Len(pin) < 4

\* mutant: the hash is derived with another salt than the one stored
NewProfileOtherSalt(name, pin, bytes) ==
    LET pinSalt == IF Truthy(pin) THEN generateSaltBase64(bytes) ELSE Null
        pinHash == IF Truthy(pin)
                   THEN derivePinHashBase64(pin, generateSaltBase64(<<(bytes[1] + 1) % 256>>))
                   ELSE Null
    IN  [profileId |-> newId, name |-> Trim(name), createdAt |-> nowIso,
         updatedAt |-> nowIso, pinSalt |-> pinSalt, pinHash |-> pinHash]

\* the profile object createProfile builds; bytes are the random salt bytes
NewProfile(name, pin, bytes) ==
    LET pinSalt == IF Truthy(pin) THEN generateSaltBase64(bytes) ELSE Null
        pinHash == IF Truthy(pin) THEN derivePinHashBase64(pin, pinSalt) ELSE Null
    IN  [profileId |-> newId, name |-> Trim(name), createdAt |-> nowIso,
         updatedAt |-> nowIso, pinSalt |-> pinSalt, pinHash |-> pinHash]

createProfile(name, pin, bytes) ==
    \/ /\ NameRejected(name)
       /\ Settle("createProfile", 0, "", "validation")
       /\ UNCHANGED <<stores, nextId, now, tx, calls, curPin, file>>
    \/ /\ ~NameRejected(name)
       /\ DbFree
       /\ nextId < MaxIds
       /\ profiles' = PutProfile(profiles, NewProfile(name, pin, bytes))
       /\ nextId' = nextId + 1
       /\ curPin' = [curPin EXCEPT ![newId] = pin]
       /\ Settle("createProfile", newId, "", "ok")
       /\ UNCHANGED <<progress, quizResults, keyGen, now, tx, calls, file>>

\* renameProfile up to the resolution of db.get
renameProfileGet(profileId, name) ==
    \/ /\ NameRejected(name)
       /\ Settle("renameProfile", profileId, "", "validation")
       /\ UNCHANGED <<stores, nextId, now, tx, calls, curPin, file>>
    \/ /\ ~NameRejected(name)
       /\ DbFree
       /\ getProfile(profileId) = Null
       /\ Settle("renameProfile", profileId, "", "notfound")
       /\ UNCHANGED <<stores, nextId, now, tx, calls, curPin, file>>
    \/ /\ ~NameRejected(name)
       /\ DbFree
       /\ getProfile(profileId) # Null
       /\ CanSuspend
       /\ calls' = calls \cup { [op |-> "renameProfile", pid |-> profileId,
                                 profile |-> getProfile(profileId)[1],
                                 name |-> name, pin |-> Null, data |-> 0] }
       /\ UNCHANGED <<stores, nextId, now, tx, last, curPin, file>>

\* mutant: the rename also drops the PIN
RenamedWithoutPin(profile, name) ==
    [profile EXCEPT !.name = Trim(name), !.updatedAt = nowIso,
                    !.pinSalt = Null, !.pinHash = Null]

\* the object renameProfile puts
Renamed(profile, name) == [profile EXCEPT !.name = Trim(name), !.updatedAt = nowIso]

\* renameProfile from there: the db.put of the profile object it read
renameProfilePut(c) ==
    /\ c \in calls
    /\ c.op = "renameProfile"
    /\ DbFree
    /\ profiles' = PutProfile(profiles, Renamed(c.profile, c.name))
    /\ calls' = calls \ {c}
    /\ Settle("renameProfile", c.pid, "", "ok")
    /\ UNCHANGED <<progress, quizResults, keyGen, nextId, now, tx, curPin, file>>

\* setProfilePin up to the resolution of db.get
setProfilePinGet(profileId, pin) ==
    \/ /\ PinRejected(pin)
       /\ Settle("setProfilePin", profileId, "", "validation")
       /\ UNCHANGED <<stores, nextId, now, tx, calls, curPin, file>>
    \/ /\ ~PinRejected(pin)
       /\ DbFree
       /\ getProfile(profileId) = Null
       /\ Settle("setProfilePin", profileId, "", "notfound")
       /\ UNCHANGED <<stores, nextId, now, tx, calls, curPin, file>>
    \/ /\ ~PinRejected(pin)
       /\ DbFree
       /\ getProfile(profileId) # Null
       /\ CanSuspend
       /\ calls' = calls \cup { [op |-> "setProfilePin", pid |-> profileId,
                                 profile |-> getProfile(profileId)[1],
                                 name |-> Null, pin |-> pin, data |-> 0] }
       /\ UNCHANGED <<stores, nextId, now, tx, last, curPin, file>>

\* mutant: the new salt is stored, the hash of the pin before is kept
WithPinSaltOnly(profile, pin, bytes) ==
    [profile EXCEPT !.pinSalt = generateSaltBase64(bytes), !.updatedAt = nowIso]

\* the object setProfilePin puts; bytes are the random salt bytes
WithPin(profile, pin, bytes) ==
    LET pinSalt == generateSaltBase64(bytes)
        pinHash == derivePinHashBase64(pin, pinSalt)
    IN  [profile EXCEPT !.pinSalt = pinSalt, !.pinHash = pinHash, !.updatedAt = nowIso]

\* setProfilePin from there: salt, hash, and the db.put of the object it read
setProfilePinPut(c, bytes) ==
    /\ c \in calls
    /\ c.op = "setProfilePin"
    /\ DbFree
    /\ profiles' = PutProfile(profiles, WithPin(c.profile, c.pin, bytes))
    /\ calls' = calls \ {c}
    /\ curPin' = [curPin EXCEPT ![c.pid] = c.pin]
    /\ Settle("setProfilePin", c.pid,
              IF Truthy(c.profile.pinHash) THEN "replaced" ELSE "set", "ok")
    /\ UNCHANGED <<progress, quizResults, keyGen, nextId, now, tx, file>>

\* clearProfilePin up to the resolution of db.get
clearProfilePinGet(profileId) ==
    \/ /\ DbFree
       /\ getProfile(profileId) = Null
       /\ Settle("clearProfilePin", profileId, "", "notfound")
       /\ UNCHANGED <<stores, nextId, now, tx, calls, curPin, file>>
    \/ /\ DbFree
       /\ getProfile(profileId) # Null
       /\ CanSuspend
       /\ calls' = calls \cup { [op |-> "clearProfilePin", pid |-> profileId,
                                 profile |-> getProfile(profileId)[1],
                                 name |-> Null, pin |-> Null, data |-> 0] }
       /\ UNCHANGED <<stores, nextId, now, tx, last, curPin, file>>

\* mutant: only the hash is cleared
WithoutPinHashOnly(profile) == [profile EXCEPT !.pinHash = Null, !.updatedAt = nowIso]

\* the object clearProfilePin puts
WithoutPin(profile) ==
    [profile EXCEPT !.pinSalt = Null, !.pinHash = Null, !.updatedAt = nowIso]

\* clearProfilePin from there
clearProfilePinPut(c) ==
    /\ c \in calls
    /\ c.op = "clearProfilePin"
    /\ DbFree
    /\ profiles' = PutProfile(profiles, WithoutPin(c.profile))
    /\ calls' = calls \ {c}
    /\ curPin' = [curPin EXCEPT ![c.pid] = Null]
    /\ Settle("clearProfilePin", c.pid, "", "ok")
    /\ UNCHANGED <<progress, quizResults, keyGen, nextId, now, tx, file>>

\* mutant: a profile that is not found counts as one without PIN
verifyProfilePinNotFoundTrue(rows, profileId, pin) ==
    LET found == GetProfile(rows, profileId)
    IN  IF found = Null THEN TRUE
        ELSE IF ~Truthy(found[1].pinHash) \/ ~Truthy(found[1].pinSalt) THEN TRUE
        ELSE derivePinHashBase64(pin, found[1].pinSalt) = found[1].pinHash

\* verifyProfilePin(profileId, pin) against the rows of 'profiles'
verifyProfilePin(rows, profileId, pin) ==
    LET found == GetProfile(rows, profileId)
    IN  IF found = Null THEN FALSE
        ELSE IF ~Truthy(found[1].pinHash) \/ ~Truthy(found[1].pinSalt) THEN TRUE
        ELSE derivePinHashBase64(pin, found[1].pinSalt) = found[1].pinHash

\* a call of verifyProfilePin(profileId, pin): it reads, and resolves to a boolean
verifyProfilePinCalled(profileId, pin) ==
    /\ DbFree
    /\ Settle("verifyProfilePin", profileId, "",
              IF verifyProfilePin(profiles, profileId, pin) THEN "true" ELSE "false")
    /\ UNCHANGED <<stores, nextId, now, tx, calls, curPin, file>>

(***************************************************************************)
(* Explicit readwrite transactions over the three stores: deleteProfile    *)
(* and the write batch of importProfileData.  The transaction works on its *)
(* own copy of the stores; TxCommit publishes it, TxAbort drops it.        *)
(***************************************************************************)
\* db.transaction([profiles, progress, quizResults], 'readwrite')
\* (prior: history, the profile row the caller found for profileId, or Null)
OpenTx(op, profileId, data, prior) ==
    [op |-> op, pid |-> profileId, pc |-> "profile", data |-> data, prior |-> prior,
     profiles |-> profiles, progress |-> progress,
     quizResults |-> quizResults, keyGen |-> keyGen]

\* deleteProfile: the transaction is opened
deleteProfile(profileId) ==
    /\ DbFree
    /\ tx' = OpenTx("deleteProfile", profileId, 0, getProfile(profileId))
    /\ UNCHANGED <<stores, nextId, now, calls, last, curPin, file>>

\* mutant: the delete is given a key no row has
DeleteProfileRowMiss(rows, profileId) == rows

\* tx.objectStore(profiles).delete(profileId)
DeleteProfileRow(rows, profileId) == { r \in rows : ProfileKey(r) # profileId }

\* mutant: 'if (cursor)' for 'while (cursor)', only the first row is deleted
CursorSweepOnce(rows, profileId) ==
    IF byProfileId(rows, profileId) = {} THEN rows
    ELSE rows \ { CHOOSE r \in byProfileId(rows, profileId) : TRUE }

\* openCursor(IDBKeyRange.only(profileId)) on index byProfileId and the loop
\* 'while (cursor) { cursor.delete(); cursor = cursor.continue() }'
RECURSIVE CursorSweep(_, _)
CursorSweep(rows, profileId) ==
    IF byProfileId(rows, profileId) = {} THEN rows
    ELSE CursorSweep(rows \ { CHOOSE r \in byProfileId(rows, profileId) : TRUE }, profileId)

deleteProfileRow ==
    /\ tx.op = "deleteProfile"
    /\ tx.pc = "profile"
    /\ tx' = [tx EXCEPT !.profiles = DeleteProfileRow(tx.profiles, tx.pid),
                        !.pc = "progress"]
    /\ UNCHANGED <<stores, nextId, now, calls, last, curPin, file>>

\* the loop over the progress cursor
deleteProgressSweep ==
    /\ tx.op = "deleteProfile"
    /\ tx.pc = "progress"
    /\ tx' = [tx EXCEPT !.progress = CursorSweep(tx.progress, tx.pid), !.pc = "quiz"]
    /\ UNCHANGED <<stores, nextId, now, calls, last, curPin, file>>

\* the loop over the quizResults cursor
deleteQuizSweep ==
    /\ tx.op = "deleteProfile"
    /\ tx.pc = "quiz"
    /\ tx' = [tx EXCEPT !.quizResults = CursorSweep(tx.quizResults, tx.pid), !.pc = "done"]
    /\ UNCHANGED <<stores, nextId, now, calls, last, curPin, file>>

\* the argument a transaction's method settles with: the file of an import
TxArg == IF tx.op = "importProfileData" THEN ToString(tx.data) ELSE ""

\* await tx.done resolves: the copy becomes the committed stores
TxCommit ==
    /\ tx # NoTx
    /\ tx.pc = "done"
    /\ profiles' = tx.profiles
    /\ progress' = tx.progress
    /\ quizResults' = tx.quizResults
    /\ keyGen' = tx.keyGen
    /\ tx' = NoTx
    /\ Settle(tx.op, tx.pid, TxArg, "ok")
    /\ UNCHANGED <<nextId, now, calls, curPin, file>>

\* a request or the commit fails: the transaction aborts, the method throws
TxAbort ==
    /\ tx # NoTx
    /\ tx' = NoTx
    /\ Settle(tx.op, tx.pid, TxArg, "aborted")
    /\ UNCHANGED <<stores, nextId, now, calls, curPin, file>>

(***************************************************************************)
(* storage/progress.js                                                     *)
(***************************************************************************)
\* getProgressMap(profileId) as the set of its (lessonId, entry) pairs
getProgressMap(rows, profileId) ==
    { [lessonId |-> r.lessonId, completed |-> r.completed, completedAt |-> r.completedAt] :
        r \in byProfileId(rows, profileId) }

markLessonComplete(profileId, lessonId) ==
    /\ DbFree
    /\ progress' = PutProgress(progress,
                      [profileId |-> profileId, lessonId |-> lessonId,
                       completed |-> TRUE, completedAt |-> Some(nowIso)])
    /\ Settle("markLessonComplete", profileId, lessonId, "ok")
    /\ UNCHANGED <<profiles, quizResults, keyGen, nextId, now, tx, calls, curPin, file>>

markLessonIncomplete(profileId, lessonId) ==
    /\ DbFree
    /\ progress' = PutProgress(progress,
                      [profileId |-> profileId, lessonId |-> lessonId,
                       completed |-> FALSE, completedAt |-> Null])
    /\ Settle("markLessonIncomplete", profileId, lessonId, "ok")
    /\ UNCHANGED <<profiles, quizResults, keyGen, nextId, now, tx, calls, curPin, file>>

(***************************************************************************)
(* storage/quizzes.js                                                      *)
(***************************************************************************)
submitQuizResult(profileId, quizId, score, totalQuestions) ==
    /\ DbFree
    /\ keyGen < MaxQuizKeys
    /\ quizResults' = AddQuiz(quizResults, keyGen,
                         [id |-> 0, profileId |-> profileId, quizId |-> quizId,
                          score |-> score, totalQuestions |-> totalQuestions,
                          completedAt |-> nowIso,
                          percentage |-> MathRoundPercent(score, totalQuestions)])
    /\ keyGen' = keyGen + 1
    /\ Settle("submitQuizResult", profileId, "", "ok")
    /\ UNCHANGED <<profiles, progress, nextId, now, tx, calls, curPin, file>>

\* the percentage getBestQuizScores takes for row r
PercentageOf(r) ==
    IF "percentage" \in DOMAIN r THEN r.percentage
    ELSE MathRoundPercent(r.score, r.totalQuestions)

\* the body of 'for (const r of rows)': bestScores after row r
BestAfter(bestScores, r) ==
    IF r.quizId \notin DOMAIN bestScores
       \/ Greater(PercentageOf(r), bestScores[r.quizId].percentage)
    THEN [q \in DOMAIN bestScores \cup {r.quizId} |->
            IF q = r.quizId
            THEN [score |-> r.score, totalQuestions |-> r.totalQuestions,
                  percentage |-> PercentageOf(r), completedAt |-> r.completedAt]
            ELSE bestScores[q]]
    ELSE bestScores

\* the loop over the rows not scanned yet, in the order of the index: by id
RECURSIVE BestScan(_, _)
BestScan(bestScores, rows) ==
    IF rows = {} THEN bestScores
    ELSE LET r == CHOOSE x \in rows : \A y \in rows : x.id <= y.id
         IN  BestScan(BestAfter(bestScores, r), rows \ {r})

\* getBestQuizScores(profileId): a function from quizId to its best entry
getBestQuizScores(rows, profileId) == BestScan(<< >>, byProfileId(rows, profileId))

(***************************************************************************)
(* storage/importExport.js: importProfileData.  A snapshot is named by its *)
(* index in Snapshots.                                                     *)
(***************************************************************************)
Snapshots ==
    << [version |-> 1, profile |-> [name |-> <<"a">>],
        progress |-> << [lessonId |-> "l1", completed |-> TRUE, completedAt |-> Some(1)],
                        [lessonId |-> "l1", completed |-> FALSE, completedAt |-> Null] >>,
        quizResults |-> << [quizId |-> "q1", score |-> 6, totalQuestions |-> 10,
                            completedAt |-> Some(1)] >>],
       [version |-> 1, profile |-> [name |-> <<"b">>],
        progress |-> << [lessonId |-> "", completed |-> TRUE, completedAt |-> Null],
                        [lessonId |-> "l2", completed |-> TRUE, completedAt |-> Some(1)] >>,
        quizResults |-> << [quizId |-> "", score |-> 9, totalQuestions |-> 10,
                            completedAt |-> Null] >>],
       [version |-> 2, profile |-> [name |-> <<"a">>], progress |-> << >>, quizResults |-> << >>],
       [version |-> 1, profile |-> [name |-> Null], progress |-> << >>, quizResults |-> << >>],
       [version |-> 1, profile |-> [name |-> <<" ">>], progress |-> << >>, quizResults |-> << >>],
       [version |-> 1, profile |-> [name |-> <<"b">>], progress |-> << >>, quizResults |-> << >>],
       [version |-> 1, profile |-> [name |-> <<"a">>],
        progress |-> << [lessonId |-> "l1", completed |-> TRUE, completedAt |-> Some(1)],
                        [lessonId |-> "l2", completed |-> TRUE, completedAt |-> Null],
                        [lessonId |-> "l1", completed |-> FALSE, completedAt |-> Null] >>,
        quizResults |-> << >>],
       [version |-> 1, profile |-> [name |-> <<"a">>], progress |-> << >>,
        quizResults |-> << [quizId |-> "q1", score |-> 0, totalQuestions |-> 0,
                            completedAt |-> Some(1)] >>] >>

SnapshotIds == 1..Len(Snapshots)

\* the parsed file handed to importProfileData: 0 is the file exported last
Snapshot(data) == IF data = 0 THEN file[1].data ELSE Snapshots[data]

\* the quiz entries of a snapshot the import loop does not skip
QuizEntries(data) ==
    Cardinality({ j \in 1..Len(Snapshot(data).quizResults) :
                    Snapshot(data).quizResults[j].quizId # "" })

\* the suspended import; profile: the row its existence check found, Null for
\* a profile it has created
ImportCall(profileId, data, existing) ==
    [op |-> "importProfileData", pid |-> profileId, profile |-> existing,
     name |-> Null, pin |-> Null, data |-> data]

(***************************************************************************)
(* storage/importExport.js: exportProfileData.                             *)
(***************************************************************************)
\* mutant: the whole profile row goes into the snapshot
ExportedProfileWhole(profile) == profile

\* the profile object of the snapshot
ExportedProfile(profile) ==
    [profileId |-> profile.profileId, name |-> profile.name,
     createdAt |-> profile.createdAt, updatedAt |-> profile.updatedAt]

\* the lesson ids in the order of the keys of the progress store
LessonOrder == <<"l1", "l2">>

\* the lessons of profileId that have a row, in key order
LessonsOf(rows, profileId) ==
    SelectSeq(LessonOrder, LAMBDA l : \E r \in byProfileId(rows, profileId) : r.lessonId = l)

\* mutant: only the lessons that are completed are exported
ExportedProgressCompletedOnly(rows, profileId) ==
    LET done == { r \in rows : r.completed }
    IN  [i \in 1..Len(LessonsOf(done, profileId)) |->
            LET r == CHOOSE x \in byProfileId(done, profileId) :
                         x.lessonId = LessonsOf(done, profileId)[i]
            IN  [lessonId |-> r.lessonId, completed |-> r.completed,
                 completedAt |-> r.completedAt]]

\* progressRows.map(...): Boolean(completed) and completedAt || null leave the
\* booleans and the nullable timestamps of the rows as they are
ExportedProgress(rows, profileId) ==
    [i \in 1..Len(LessonsOf(rows, profileId)) |->
        LET r == CHOOSE x \in byProfileId(rows, profileId) :
                     x.lessonId = LessonsOf(rows, profileId)[i]
        IN  [lessonId |-> r.lessonId, completed |-> r.completed,
             completedAt |-> r.completedAt]]

\* quizRows.map(...) over the rows from entry with the lowest id on
RECURSIVE ExportedQuizResults(_)
ExportedQuizResults(rows) ==
    IF rows = {} THEN << >>
    ELSE LET r == CHOOSE x \in rows : \A y \in rows : x.id <= y.id
         IN  << [quizId |-> r.quizId, score |-> r.score,
                 totalQuestions |-> r.totalQuestions,
                 completedAt |-> Some(r.completedAt)] >>
             \o ExportedQuizResults(rows \ {r})

\* the object exportProfileData returns for a profile row
ExportedData(profile) ==
    [version |-> 1, exportedAt |-> nowIso, profile |-> ExportedProfile(profile),
     progress |-> ExportedProgress(progress, profile.profileId),
     quizResults |-> ExportedQuizResults(byProfileId(quizResults, profile.profileId))]

\* exportProfileData and the download of its result: the file holds the
\* snapshot (data) and, as history, what the profile had when it was taken
exportProfileData(profileId) ==
    \/ /\ DbFree
       /\ getProfile(profileId) = Null
       /\ Settle("exportProfileData", profileId, "", "notfound")
       /\ UNCHANGED <<stores, nextId, now, tx, calls, curPin, file>>
    \/ /\ DbFree
       /\ getProfile(profileId) # Null
       /\ file' = Some([data |-> ExportedData(getProfile(profileId)[1]),
                        of |-> profileId,
                        progressMap |-> getProgressMap(progress, profileId),
                        quizCount |-> Cardinality(byProfileId(quizResults, profileId))])
       /\ Settle("exportProfileData", profileId, "", "ok")
       /\ UNCHANGED <<stores, nextId, now, tx, calls, curPin>>

\* mutant: any version is taken
VersionSupportedAlways(data) == TRUE

\* the check 'data.version !== 1' passes
VersionSupported(data) == Snapshot(data).version = 1

\* importProfileData up to db.transaction: the checks, and the target profile
\* (overwriteProfileId 0 is null)
importProfileData(data, overwriteProfileId) ==
    \/ /\ ~VersionSupported(data)
       /\ Settle("importProfileData", overwriteProfileId, "", "version")
       /\ UNCHANGED <<stores, nextId, now, tx, calls, curPin, file>>
    \/ /\ VersionSupported(data)
       /\ ~Truthy(Snapshot(data).profile.name)
       /\ Settle("importProfileData", overwriteProfileId, "", "validation")
       /\ UNCHANGED <<stores, nextId, now, tx, calls, curPin, file>>
    \/ /\ VersionSupported(data)
       /\ Truthy(Snapshot(data).profile.name)
       /\ overwriteProfileId # 0
       /\ DbFree
       /\ getProfile(overwriteProfileId) = Null
       /\ Settle("importProfileData", overwriteProfileId, "", "notfound")
       /\ UNCHANGED <<stores, nextId, now, tx, calls, curPin, file>>
    \/ /\ VersionSupported(data)
       /\ Truthy(Snapshot(data).profile.name)
       /\ overwriteProfileId # 0
       /\ DbFree
       /\ getProfile(overwriteProfileId) # Null
       /\ CanSuspend
       /\ calls' = calls \cup { ImportCall(overwriteProfileId, data, getProfile(overwriteProfileId)) }
       /\ UNCHANGED <<stores, nextId, now, tx, last, curPin, file>>
    \/ /\ VersionSupported(data)
       /\ Truthy(Snapshot(data).profile.name)
       /\ overwriteProfileId = 0
       /\ NameRejected(Snapshot(data).profile.name)
       /\ Settle("importProfileData", 0, "", "validation")
       /\ UNCHANGED <<stores, nextId, now, tx, calls, curPin, file>>
    \/ /\ VersionSupported(data)
       /\ Truthy(Snapshot(data).profile.name)
       /\ overwriteProfileId = 0
       /\ ~NameRejected(Snapshot(data).profile.name)
       /\ DbFree
       /\ nextId < MaxIds
       /\ CanSuspend
       /\ profiles' = PutProfile(profiles, NewProfile(Snapshot(data).profile.name, Null, << >>))
       /\ nextId' = nextId + 1
       /\ curPin' = [curPin EXCEPT ![newId] = Null]
       /\ calls' = calls \cup { ImportCall(newId, data, Null) }
       /\ UNCHANGED <<progress, quizResults, keyGen, now, tx, last, file>>

\* importProfileData: its transaction is opened
importOpenTx(c) ==
    /\ c \in calls
    /\ c.op = "importProfileData"
    /\ DbFree
    /\ keyGen + QuizEntries(c.data) <= MaxQuizKeys
    /\ tx' = OpenTx("importProfileData", c.pid, c.data, c.profile)
    /\ calls' = calls \ {c}
    /\ UNCHANGED <<stores, nextId, now, last, curPin, file>>

\* mutant: the row is replaced by a profile built anew from the snapshot
ImportProfileRowFresh(rows, profileId, name) ==
    IF GetProfile(rows, profileId) = Null THEN rows
    ELSE PutProfile(rows, [profileId |-> profileId, name |-> name, createdAt |-> nowIso,
                           updatedAt |-> nowIso, pinSalt |-> Null, pinHash |-> Null])

\* the profile row after the block 'if (profile) { ... put(profile) }'
ImportProfileRow(rows, profileId, name) ==
    IF GetProfile(rows, profileId) = Null THEN rows
    ELSE PutProfile(rows, [GetProfile(rows, profileId)[1] EXCEPT
                              !.name = name, !.updatedAt = nowIso])

importProfilePut ==
    /\ tx.op = "importProfileData"
    /\ tx.pc = "profile"
    /\ tx' = [tx EXCEPT !.profiles = ImportProfileRow(tx.profiles, tx.pid,
                                                      Snapshot(tx.data).profile.name),
                        !.pc = "progress"]
    /\ UNCHANGED <<stores, nextId, now, calls, last, curPin, file>>

\* the progress row the loop body puts for entry p
ImportProgressRow(rows, profileId, p) ==
    IF p.lessonId = "" THEN rows
    ELSE PutProgress(rows, [profileId |-> profileId, lessonId |-> p.lessonId,
                            completed |-> p.completed, completedAt |-> p.completedAt])

\* 'for (const p of data.progress)' from entry i on
RECURSIVE ImportProgressRows(_, _, _, _)
ImportProgressRows(rows, profileId, entries, i) ==
    IF i > Len(entries) THEN rows
    ELSE ImportProgressRows(ImportProgressRow(rows, profileId, entries[i]),
                            profileId, entries, i + 1)

importProgressPut ==
    /\ tx.op = "importProfileData"
    /\ tx.pc = "progress"
    /\ tx' = [tx EXCEPT !.progress = ImportProgressRows(tx.progress, tx.pid,
                                         Snapshot(tx.data).progress, 1),
                        !.pc = "quiz"]
    /\ UNCHANGED <<stores, nextId, now, calls, last, curPin, file>>

\* the quizResults row the loop body adds for entry q
\* (percentage: undefined is the field left out)
ImportQuizRow(profileId, q) ==
    IF q.totalQuestions # 0
    THEN [id |-> 0, profileId |-> profileId, quizId |-> q.quizId, score |-> q.score,
          totalQuestions |-> q.totalQuestions,
          completedAt |-> IF Truthy(q.completedAt) THEN q.completedAt[1] ELSE nowIso,
          percentage |-> MathRoundPercent(q.score, q.totalQuestions)]
    ELSE [id |-> 0, profileId |-> profileId, quizId |-> q.quizId, score |-> q.score,
          totalQuestions |-> q.totalQuestions,
          completedAt |-> IF Truthy(q.completedAt) THEN q.completedAt[1] ELSE nowIso]

\* mutant: an entry is skipped when the profile has an attempt like it
RECURSIVE ImportQuizRowsDeduplicated(_, _, _, _, _)
ImportQuizRowsDeduplicated(rows, gen, profileId, entries, i) ==
    IF i > Len(entries) THEN [rows |-> rows, gen |-> gen]
    ELSE IF \/ entries[i].quizId = ""
            \/ \E r \in byProfileId(rows, profileId) :
                  /\ r.quizId = entries[i].quizId
                  /\ r.score = entries[i].score
                  /\ r.totalQuestions = entries[i].totalQuestions
         THEN ImportQuizRowsDeduplicated(rows, gen, profileId, entries, i + 1)
         ELSE ImportQuizRowsDeduplicated(
                  AddQuiz(rows, gen, ImportQuizRow(profileId, entries[i])),
                  gen + 1, profileId, entries, i + 1)

\* 'for (const q of data.quizResults)' from entry i on: the rows and the key generator
RECURSIVE ImportQuizRows(_, _, _, _, _)
ImportQuizRows(rows, gen, profileId, entries, i) ==
    IF i > Len(entries) THEN [rows |-> rows, gen |-> gen]
    ELSE IF entries[i].quizId = "" THEN ImportQuizRows(rows, gen, profileId, entries, i + 1)
    ELSE ImportQuizRows(AddQuiz(rows, gen, ImportQuizRow(profileId, entries[i])),
                        gen + 1, profileId, entries, i + 1)

importQuizAdd ==
    /\ tx.op = "importProfileData"
    /\ tx.pc = "quiz"
    /\ LET added == ImportQuizRows(tx.quizResults, tx.keyGen, tx.pid,
                                   Snapshot(tx.data).quizResults, 1)
       IN  tx' = [tx EXCEPT !.quizResults = added.rows, !.keyGen = added.gen,
                            !.pc = "done"]
    /\ UNCHANGED <<stores, nextId, now, calls, last, curPin, file>>

(***************************************************************************)
(* storage/db.js: getDb().  The module keeps one variable, dbPromise;      *)
(* getDb tests and sets it without an await in between, so a call is one   *)
(* step.  db.dbPromise is the promise held (the n-th promise openDB        *)
(* returned, as <<n>>), db.settled how that promise has settled so far,    *)
(* db.opens the openDB calls started and db.handles what getDb returned    *)
(* to each caller last.                                                    *)
(***************************************************************************)
Callers == 1..MaxCallers

\* the test `if (!dbPromise)`, left out
NeedsOpenAlways(dbPromise) == TRUE

\* the test `if (!dbPromise)`
NeedsOpen(dbPromise) == dbPromise = Null

\* getDb(): opens the database when no promise is held, returns the promise held
getDb(caller) ==
    /\ \/ /\ NeedsOpen(db.dbPromise)
          /\ db.opens < MaxOpens
          /\ db' = [db EXCEPT !.opens = @ + 1,
                              !.dbPromise = Some(db.opens + 1),
                              !.settled = "pending",
                              !.handles[caller] = Some(db.opens + 1)]
       \/ /\ ~NeedsOpen(db.dbPromise)
          /\ db' = [db EXCEPT !.handles[caller] = db.dbPromise]
    /\ UNCHANGED <<stores, nextId, now, tx, calls, last, curPin, file, app, gate,
                   activeProfileId, lin>>

\* openDB's promise resolves: the upgrade callback has made the three stores
openDBResolves ==
    /\ db.settled = "pending"
    /\ db' = [db EXCEPT !.settled = "open"]
    /\ UNCHANGED <<stores, nextId, now, tx, calls, last, curPin, file, app, gate,
                   activeProfileId, lin>>

\* openDB's promise rejects: the database is blocked or cannot be upgraded
openDBRejects ==
    /\ db.settled = "pending"
    /\ db' = [db EXCEPT !.settled = "failed"]
    /\ UNCHANGED <<stores, nextId, now, tx, calls, last, curPin, file, app, gate,
                   activeProfileId, lin>>

(***************************************************************************)
(* App.jsx.  app.profile and app.quizResults are the component's state;    *)
(* app.awaiting holds the continuations of loadQuizResults and submitQuiz  *)
(* that wait for their store call, in the order of the calls: the store    *)
(* calls of one page go through one database connection, which settles     *)
(* them in the order they were made.                                       *)
(***************************************************************************)
\* mutant: an attempt that ties the cached best replaces it
QuizResultsAfterTie(prev, h) ==
    IF h.quizId \notin DOMAIN prev \/ ~Greater(prev[h.quizId].percentage, h.percentage)
    THEN [q \in DOMAIN prev \cup {h.quizId} |->
            IF q = h.quizId
            THEN [score |-> h.score, totalQuestions |-> h.totalQuestions,
                  percentage |-> h.percentage, completedAt |-> h.completedAt]
            ELSE prev[q]]
    ELSE prev

\* the updater submitQuiz passes to setQuizResults, for the attempt h
QuizResultsAfter(prev, h) ==
    IF h.quizId \notin DOMAIN prev \/ Greater(h.percentage, prev[h.quizId].percentage)
    THEN [q \in DOMAIN prev \cup {h.quizId} |->
            IF q = h.quizId
            THEN [score |-> h.score, totalQuestions |-> h.totalQuestions,
                  percentage |-> h.percentage, completedAt |-> h.completedAt]
            ELSE prev[q]]
    ELSE prev

\* onProfileReady = setProfile(p), with the effect on [profile] up to the await
\* of loadQuizResults: getBestQuizScores reads the store before any later call
onProfileReady(p) ==
    /\ DbFree
    /\ app' = [app EXCEPT !.profile = p,
                          !.awaiting =
                              IF p = Null THEN @
                              ELSE Append(@, [op |-> "loadQuizResults",
                                              best |-> getBestQuizScores(quizResults,
                                                                         p[1].profileId)])]

\* submitQuiz up to the await of submitQuizResult
submitQuiz(quizId, score, totalQuestions) ==
    /\ app.profile # Null
    /\ Len(app.awaiting) < MaxInFlight
    /\ submitQuizResult(app.profile[1].profileId, quizId, score, totalQuestions)
    /\ app' = [app EXCEPT !.awaiting =
                   Append(@, [op |-> "submitQuiz", quizId |-> quizId, score |-> score,
                              totalQuestions |-> totalQuestions,
                              percentage |-> MathRoundPercent(score, totalQuestions),
                              completedAt |-> nowIso])]
    /\ UNCHANGED <<db, gate, activeProfileId, lin>>

\* the await settled first resumes: loadQuizResults sets the map it read,
\* submitQuiz applies its updater
setQuizResults ==
    /\ app.awaiting # << >>
    /\ \/ /\ Head(app.awaiting).op = "loadQuizResults"
          /\ app' = [app EXCEPT !.quizResults = Head(app.awaiting).best,
                                !.awaiting = Tail(@)]
       \/ /\ Head(app.awaiting).op = "submitQuiz"
          /\ app' = [app EXCEPT !.quizResults = QuizResultsAfter(@, Head(app.awaiting)),
                                !.awaiting = Tail(@)]
    /\ UNCHANGED <<stores, nextId, now, tx, calls, last, curPin, file, db, gate,
                   activeProfileId, lin>>

(***************************************************************************)
(* components/ProfileGate.jsx over storage/settings.js.  gate.loading,     *)
(* gate.profiles and gate.selectedProfileId are the component's state      *)
(* (selectedProfileId 0: null); gate.handlers holds the handlers suspended *)
(* at an await, each with the profileId it works on and the call it        *)
(* awaits; gate.verified is history: the profileIds for which a            *)
(* verifyProfilePin call of the component returned true.  A handler runs   *)
(* from one await to the next in one step; the store call it awaits reads  *)
(* the store when the handler resumes.                                     *)
(***************************************************************************)
getActiveProfileId == activeProfileId

\* a handler can start: the gate is shown and has loaded
CanStart ==
    /\ app.profile = Null
    /\ ~gate.loading
    /\ Cardinality(gate.handlers) < MaxInFlight

\* the profileIds of the buttons shown
Listed == { r.profileId : r \in gate.profiles }

Handler(h, profileId, pc, pin) == [h |-> h, pid |-> profileId, pc |-> pc, pin |-> pin]

\* the effect on mount: refreshProfiles, then the active pointer is restored
\* into selectedProfileId when its profile is listed
mount ==
    /\ gate.loading
    /\ DbFree
    /\ gate' = [gate EXCEPT !.loading = FALSE,
                            !.profiles = listProfiles,
                            !.selectedProfileId =
                                IF /\ getActiveProfileId # 0
                                   /\ \E r \in listProfiles : r.profileId = getActiveProfileId
                                THEN getActiveProfileId ELSE @]
    /\ UNCHANGED <<stores, nextId, now, tx, calls, last, curPin, file, db, app,
                   activeProfileId, lin>>

\* handleSelect(profileId) up to the await of getProfile
handleSelect(profileId) ==
    /\ CanStart
    /\ profileId \in Listed
    /\ gate' = [gate EXCEPT !.selectedProfileId = profileId,
                            !.handlers = @ \cup {Handler("handleSelect", profileId,
                                                         "getProfile", Null)}]
    /\ activeProfileId' = profileId
    /\ UNCHANGED <<stores, nextId, now, tx, calls, last, curPin, file, db, app, lin>>

\* mutant: the test without `!p.pinHash`
ReadyOnSelectAnyProfile(p) == p # Null

\* the test `p && !p.pinHash` of handleSelect
ReadyOnSelect(p) == p # Null /\ ~Truthy(p[1].pinHash)

\* handleSelect from the await of getProfile on, also when handleCreate or
\* handleImportFile called it
handleSelectGot(h) ==
    /\ h \in gate.handlers
    /\ h.h # "handleUnlock"
    /\ h.pc = "getProfile"
    /\ DbFree
    /\ \/ /\ ReadyOnSelect(getProfile(h.pid))
          /\ onProfileReady(getProfile(h.pid))
       \/ /\ ~ReadyOnSelect(getProfile(h.pid))
          /\ app' = app
    /\ gate' = [gate EXCEPT !.handlers = @ \ {h}]
    /\ UNCHANGED <<stores, nextId, now, tx, calls, last, curPin, file, db,
                   activeProfileId, lin>>

\* handleUnlock up to the await of verifyProfilePin; the form is shown for a
\* selected profile that is listed with a pinHash
handleUnlock(pin) ==
    /\ CanStart
    /\ gate.selectedProfileId # 0
    /\ \E r \in gate.profiles : r.profileId = gate.selectedProfileId /\ Truthy(r.pinHash)
    /\ gate' = [gate EXCEPT !.handlers = @ \cup {Handler("handleUnlock",
                                                         gate.selectedProfileId,
                                                         "verifyProfilePin", pin)}]
    /\ UNCHANGED <<stores, nextId, now, tx, calls, last, curPin, file, db, app,
                   activeProfileId, lin>>

\* handleUnlock from the await of verifyProfilePin to the await of getProfile
handleUnlockVerified(h) ==
    /\ h \in gate.handlers
    /\ h.pc = "verifyProfilePin"
    /\ DbFree
    /\ \/ /\ ~verifyProfilePin(profiles, h.pid, h.pin)
          /\ gate' = [gate EXCEPT !.handlers = @ \ {h}]
       \/ /\ verifyProfilePin(profiles, h.pid, h.pin)
          /\ gate' = [gate EXCEPT !.handlers = (@ \ {h}) \cup
                                      {Handler("handleUnlock", h.pid, "getProfile", h.pin)},
                                  !.verified = @ \cup {h.pid}]
    /\ UNCHANGED <<stores, nextId, now, tx, calls, last, curPin, file, db, app,
                   activeProfileId, lin>>

\* handleUnlock from the await of getProfile on
handleUnlockGot(h) ==
    /\ h \in gate.handlers
    /\ h.h = "handleUnlock"
    /\ h.pc = "getProfile"
    /\ onProfileReady(getProfile(h.pid))
    /\ gate' = [gate EXCEPT !.handlers = @ \ {h}]
    /\ UNCHANGED <<stores, nextId, now, tx, calls, last, curPin, file, db,
                   activeProfileId, lin>>

\* handleCreate up to the await of refreshProfiles; a createProfile that throws
\* ends it
handleCreate(name, pin, bytes) ==
    /\ CanStart
    /\ createProfile(name, pin, bytes)
    /\ gate' = IF nextId' = nextId THEN gate
               ELSE [gate EXCEPT !.handlers = @ \cup {Handler("handleCreate", nextId',
                                                              "refreshProfiles", Null)}]
    /\ UNCHANGED <<db, app, activeProfileId, lin>>

\* handleCreate and handleImportFile from the await of refreshProfiles to the
\* await of getProfile in handleSelect
refreshedThenSelect(h) ==
    /\ h \in gate.handlers
    /\ h.h \in {"handleCreate", "handleImportFile"}
    /\ h.pc = "refreshProfiles"
    /\ DbFree
    /\ gate' = [gate EXCEPT !.profiles = listProfiles,
                            !.selectedProfileId = h.pid,
                            !.handlers = (@ \ {h}) \cup
                                {Handler(h.h, h.pid, "getProfile", Null)}]
    /\ activeProfileId' = h.pid
    /\ UNCHANGED <<stores, nextId, now, tx, calls, last, curPin, file, db, app, lin>>

\* handleDelete(profileId), confirmed, up to the await of deleteProfile
handleDelete(profileId) ==
    /\ CanStart
    /\ profileId \in Listed
    /\ deleteProfile(profileId)
    /\ gate' = [gate EXCEPT !.handlers = @ \cup {Handler("handleDelete", profileId,
                                                         "deleteProfile", Null)}]
    /\ UNCHANGED <<db, app, activeProfileId, lin>>

\* handleImportFile(file) up to the await of importProfileData; an
\* importProfileData that throws ends it
handleImportFile(data) ==
    /\ CanStart
    /\ importProfileData(data, 0)
    /\ gate' = IF calls' = calls THEN gate
               ELSE [gate EXCEPT !.handlers = @ \cup {Handler("handleImportFile", nextId',
                                                              "importProfileData", Null)}]
    /\ UNCHANGED <<db, app, activeProfileId, lin>>

\* the handlers that await the transaction in progress
Awaiting == { h \in gate.handlers : h.pc = tx.op /\ h.pid = tx.pid }

\* the transaction commits and the handlers that await it run on to their
\* await of refreshProfiles: handleDelete clears the active pointer when it
\* names the profile
commitSeen ==
    /\ TxCommit
    /\ gate' = [gate EXCEPT !.handlers = (@ \ Awaiting) \cup
                                { Handler(h.h, h.pid, "refreshProfiles", Null) :
                                    h \in Awaiting }]
    /\ activeProfileId' =
          IF /\ getActiveProfileId = tx.pid
             /\ \E h \in Awaiting : h.h = "handleDelete"
          THEN 0 ELSE activeProfileId
    /\ UNCHANGED <<db, app, lin>>

\* the transaction aborts and the handlers that await it end
abortSeen ==
    /\ TxAbort
    /\ gate' = [gate EXCEPT !.handlers = @ \ Awaiting]
    /\ UNCHANGED <<db, app, activeProfileId, lin>>

\* handleDelete from the await of refreshProfiles on
handleDeleteRefreshed(h) ==
    /\ h \in gate.handlers
    /\ h.h = "handleDelete"
    /\ h.pc = "refreshProfiles"
    /\ DbFree
    /\ gate' = [gate EXCEPT !.profiles = listProfiles,
                            !.selectedProfileId =
                                IF /\ getActiveProfileId # 0
                                   /\ \E r \in listProfiles : r.profileId = getActiveProfileId
                                THEN getActiveProfileId ELSE 0,
                            !.handlers = @ \ {h}]
    /\ UNCHANGED <<stores, nextId, now, tx, calls, last, curPin, file, db, app,
                   activeProfileId, lin>>

\* the page is loaded again: the components start over, the stores and the
\* active pointer stay
reload ==
    /\ Idle
    /\ ~gate.loading
    /\ app' = [profile |-> Null, quizResults |-> << >>, awaiting |-> << >>]
    /\ gate' = [loading |-> TRUE, profiles |-> {}, selectedProfileId |-> 0,
                handlers |-> {}, verified |-> {}]
    /\ UNCHANGED <<stores, nextId, now, tx, calls, last, curPin, file, db,
                   activeProfileId, lin>>

(***************************************************************************)
(* The clock, the initial state, the specifications.                       *)
(***************************************************************************)
Tick ==
    /\ now < MaxTime
    /\ now' = now + 1
    /\ UNCHANGED <<stores, nextId, tx, calls, last, curPin, file>>

Init ==
    /\ profiles = {}
    /\ progress = {}
    /\ quizResults = {}
    /\ keyGen = 0
    /\ nextId = 0
    /\ now = 1
    /\ tx = NoTx
    /\ calls = {}
    /\ last = NoCall
    /\ curPin = [i \in ProfileIds |-> Null]
    /\ file = Null
    /\ db = [dbPromise |-> Null, settled |-> "none", opens |-> 0,
             handles |-> [caller \in Callers |-> Null]]
    /\ app = [profile |-> Null, quizResults |-> << >>, awaiting |-> << >>]
    /\ gate = [loading |-> TRUE, profiles |-> {}, selectedProfileId |-> 0,
               handlers |-> {}, verified |-> {}]
    /\ activeProfileId = 0
    /\ lin = [profileId \in ProfileIds |-> {}]

\* the profile ids a caller can pass: an id newId() has handed out (the profile
\* may be gone since), or the one it never hands out
CallerIds == (1..nextId) \cup {MaxIds + 1}

\* the steps of a transaction that is open
TxStep ==
    \/ deleteProfileRow
    \/ deleteProgressSweep
    \/ deleteQuizSweep
    \/ importProfilePut
    \/ importProgressPut
    \/ importQuizAdd
    \/ TxCommit
    \/ TxAbort

\* the salt bytes a call with this pin draws
SaltsFor(pin) == IF Truthy(pin) THEN SaltBytes ELSE { << >> }

\* the step leaves newId() an id to hand out: the specifications with many
\* interleavings keep to one profile id fewer than MaxIds
LeavesAnId == nextId' < MaxIds

\* the step leaves the key generator a key to hand out
LeavesAKey == keyGen' < MaxQuizKeys

\* the step is a step of the stores alone: the module state of db.js and the
\* components stay as they are
Still == UNCHANGED <<db, app, gate, activeProfileId, lin>>

\* the same, and the step leaves one store method suspended at most: the
\* specifications with many interleavings keep to one fewer than MaxInFlight
Alone == Still /\ Cardinality(calls') < MaxInFlight

\* the profile store alone, any interleaving of its methods
NextProfiles ==
    \/ \E name \in {Null, <<"a">>}, pin \in {Null, <<"1", "2", "3", "4">>} :
          createProfile(name, pin, <<0>>) /\ LeavesAnId /\ Alone
    \/ \E profileId \in CallerIds, name \in {Null, <<"b">>} :
          renameProfileGet(profileId, name) /\ Alone
    \/ \E c \in calls : renameProfilePut(c) /\ Alone
    \/ \E profileId \in CallerIds, pin \in {Null, <<"1", "2", "3", "4">>} :
          setProfilePinGet(profileId, pin) /\ Alone
    \/ \E c \in calls : setProfilePinPut(c, <<255>>) /\ Alone
    \/ \E profileId \in CallerIds : clearProfilePinGet(profileId) /\ Alone
    \/ \E c \in calls : clearProfilePinPut(c) /\ Alone
    \/ \E profileId \in CallerIds : deleteProfile(profileId) /\ Alone
    \/ \E data \in {3, 4, 5, 6}, target \in {0} \cup CallerIds :
          importProfileData(data, target) /\ LeavesAnId /\ Alone
    \/ \E c \in calls : importOpenTx(c) /\ Alone
    \/ deleteProfileRow /\ Alone
    \/ deleteProgressSweep /\ Alone
    \/ deleteQuizSweep /\ Alone
    \/ importProfilePut /\ Alone
    \/ importProgressPut /\ Alone
    \/ importQuizAdd /\ Alone
    \/ TxCommit /\ Alone
    \/ TxAbort /\ Alone
    \/ Tick /\ Alone

SpecProfiles == Init /\ [][NextProfiles]_vars

\* the profile store, one method at a time, with every name and pin argument
NextPins ==
    \/ /\ Idle
       /\ Still
       /\ \/ \E name \in NameInputs, pin \in PinInputs :
                \E bytes \in SaltsFor(pin) : createProfile(name, pin, bytes) /\ LeavesAnId
          \/ \E profileId \in CallerIds, name \in NameInputs :
                renameProfileGet(profileId, name)
          \/ \E profileId \in CallerIds, pin \in PinInputs :
                setProfilePinGet(profileId, pin)
          \/ \E profileId \in CallerIds : clearProfilePinGet(profileId)
          \/ \E profileId \in CallerIds : deleteProfile(profileId)
    \/ \E c \in calls : renameProfilePut(c) /\ Still
    \/ \E c \in calls, bytes \in SaltBytes : setProfilePinPut(c, bytes) /\ Still
    \/ \E c \in calls : clearProfilePinPut(c) /\ Still
    \/ deleteProfileRow /\ Still
    \/ deleteProgressSweep /\ Still
    \/ deleteQuizSweep /\ Still
    \/ TxCommit /\ Still
    \/ TxAbort /\ Still

SpecPins == Init /\ [][NextPins]_vars

\* the profile store, one method at a time, under a running clock
NextFrame ==
    \/ /\ Idle
       /\ Still
       /\ \/ \E name \in {Null, <<"a">>}, pin \in {Null, <<"1", "2", "3", "4">>} :
                createProfile(name, pin, <<0>>) /\ LeavesAnId
          \/ \E profileId \in CallerIds, name \in {Null, <<"b">>} :
                renameProfileGet(profileId, name)
          \/ \E profileId \in CallerIds, pin \in {Null, <<"4", "3", "2", "1">>} :
                setProfilePinGet(profileId, pin)
          \/ \E profileId \in CallerIds : clearProfilePinGet(profileId)
          \/ \E profileId \in CallerIds : deleteProfile(profileId)
    \/ \E c \in calls : renameProfilePut(c) /\ Still
    \/ \E c \in calls : setProfilePinPut(c, <<255>>) /\ Still
    \/ \E c \in calls : clearProfilePinPut(c) /\ Still
    \/ deleteProfileRow /\ Still
    \/ deleteProgressSweep /\ Still
    \/ deleteQuizSweep /\ Still
    \/ TxCommit /\ Still
    \/ TxAbort /\ Still
    \/ Tick /\ Still

SpecFrame == Init /\ [][NextFrame]_vars

\* profiles and the records that reference them, any interleaving
NextData ==
    \/ \E name \in {Null, <<"a">>} : createProfile(name, Null, << >>) /\ LeavesAnId /\ Alone
    \/ \E profileId \in CallerIds : deleteProfile(profileId) /\ Alone
    \/ \E profileId \in CallerIds : markLessonComplete(profileId, "l1") /\ Alone
    \/ \E profileId \in CallerIds : markLessonIncomplete(profileId, "l1") /\ Alone
    \/ \E profileId \in CallerIds :
          submitQuizResult(profileId, "q1", 6, 10) /\ LeavesAKey /\ Alone
    \/ \E data \in {2, 3, 4, 5}, target \in {0} \cup CallerIds :
          importProfileData(data, target) /\ LeavesAnId /\ Alone
    \/ \E c \in calls : importOpenTx(c) /\ Alone
    \/ deleteProfileRow /\ Alone
    \/ deleteProgressSweep /\ Alone
    \/ deleteQuizSweep /\ Alone
    \/ importProfilePut /\ Alone
    \/ importProgressPut /\ Alone
    \/ importQuizAdd /\ Alone
    \/ TxCommit /\ Alone
    \/ TxAbort /\ Alone

SpecData == Init /\ [][NextData]_vars

\* the progress store under a running clock, any interleaving
NextProgress ==
    \/ \E name \in {Null, <<"a">>} : createProfile(name, Null, << >>) /\ LeavesAnId /\ Alone
    \/ \E profileId \in CallerIds : markLessonComplete(profileId, "l1") /\ Alone
    \/ \E profileId \in CallerIds : markLessonIncomplete(profileId, "l1") /\ Alone
    \/ \E data \in {2, 3, 4, 5, 7}, target \in {0} \cup CallerIds :
          importProfileData(data, target) /\ LeavesAnId /\ Alone
    \/ \E c \in calls : importOpenTx(c) /\ Alone
    \/ importProfilePut /\ Alone
    \/ importProgressPut /\ Alone
    \/ importQuizAdd /\ Alone
    \/ TxCommit /\ Alone
    \/ TxAbort /\ Alone
    \/ Tick /\ Alone

SpecProgress == Init /\ [][NextProgress]_vars

\* the quiz-result store, one method at a time: submissions, imports, deletes
NextQuiz ==
    \/ /\ Idle
       /\ Still
       /\ \/ \E name \in {Null, <<"a">>} : createProfile(name, Null, << >>) /\ LeavesAnId
          \/ \E profileId \in CallerIds, quizId \in QuizIds, score \in Scores :
                submitQuizResult(profileId, quizId, score, 10)
          \/ \E profileId \in CallerIds : deleteProfile(profileId)
          \/ \E data \in {1, 3, 4, 5, 8}, target \in {0} \cup CallerIds :
                importProfileData(data, target) /\ LeavesAnId
    \/ \E c \in calls : importOpenTx(c) /\ Still
    \/ deleteProfileRow /\ Still
    \/ deleteProgressSweep /\ Still
    \/ deleteQuizSweep /\ Still
    \/ importProfilePut /\ Still
    \/ importProgressPut /\ Still
    \/ importQuizAdd /\ Still
    \/ TxCommit /\ Still
    \/ TxAbort /\ Still

SpecQuiz == Init /\ [][NextQuiz]_vars

\* export and import beside the methods that fill a profile, one method at a
\* time: createProfile makes one profile, which the other methods fill; the
\* malformed files are imported as new profiles, the exported file anywhere
NextRoundTrip ==
    \/ /\ Idle
       /\ Still
       /\ \/ \E name \in {Null, <<"a">>}, pin \in {Null, <<"1", "2", "3", "4">>} :
                createProfile(name, pin, <<0>>) /\ LeavesAnId
          \/ \E r \in profiles : markLessonComplete(r.profileId, "l1") /\ r.profileId = 1
          \/ \E r \in profiles : markLessonIncomplete(r.profileId, "l2") /\ r.profileId = 1
          \/ \E r \in profiles : submitQuizResult(r.profileId, "q1", 6, 10) /\ r.profileId = 1
          \/ \E profileId \in CallerIds : exportProfileData(profileId)
          \/ \E data \in {3, 4, 5} : importProfileData(data, 0)
          \/ \E target \in {0} \cup CallerIds : file # Null /\ importProfileData(0, target)
    \/ \E c \in calls : importOpenTx(c) /\ Still
    \/ importProfilePut /\ Still
    \/ importProgressPut /\ Still
    \/ importQuizAdd /\ Still
    \/ TxCommit /\ Still
    \/ TxAbort /\ Still

SpecRoundTrip == Init /\ [][NextRoundTrip]_vars

\* what a profile is to the callers of renameProfile, setProfilePin and
\* clearProfilePin: its name and the pin that unlocks it (Null: no PIN)
Abstract(profile) ==
    [name |-> profile.name,
     pin |-> IF ~Truthy(profile.pinHash) THEN Null
             ELSE CHOOSE pin \in PinInputs :
                      verifyProfilePin({profile}, profile.profileId, pin)]

\* what a suspended call makes of a profile when it runs alone
Applied(c, st) ==
    CASE c.op = "renameProfile" -> [st EXCEPT !.name = Trim(c.name)]
      [] c.op = "setProfilePin" -> [st EXCEPT !.pin = c.pin]
      [] c.op = "clearProfilePin" -> [st EXCEPT !.pin = Null]

\* one more of the suspended calls takes effect, in every way it can
LinStep(possible, pending) ==
    possible \cup { [st |-> Applied(y[2], y[1].st), done |-> y[1].done \cup {y[2]}] :
                      y \in {z \in possible \X pending : z[2] \notin z[1].done} }

\* the suspended calls take effect in any number and any order
RECURSIVE LinClose(_, _)
LinClose(possible, pending) ==
    IF LinStep(possible, pending) = possible THEN possible
    ELSE LinClose(LinStep(possible, pending), pending)

\* history kept beside a step of the profile store.  lin[profileId] holds, for
\* every order in which the calls so far can have taken effect one after
\* another (a call takes effect once, between its start and its return), the
\* profile that order leaves and the suspended calls that have taken effect in it
Linearized ==
    lin' = [profileId \in ProfileIds |->
        LET returned == {c \in calls \ calls' : c.pid = profileId}
            kept == IF returned = {} THEN lin[profileId]
                    ELSE { [st |-> x.st, done |-> x.done \ returned] :
                           x \in {y \in lin[profileId] : returned \subseteq y.done} }
        IN  IF nextId' # nextId /\ profileId = nextId'
            THEN { [st |-> Abstract(GetProfile(profiles', profileId)[1]), done |-> {}] }
            ELSE LinClose(kept, {c \in calls' : c.pid = profileId})]

\* a step of the profile store with its history; the components stay as they are
Raced == Linearized /\ UNCHANGED <<db, app, gate, activeProfileId>>

\* renameProfile, setProfilePin and clearProfilePin on the profiles createProfile
\* made, any interleaving, up to MaxInFlight calls suspended
NextRace ==
    \/ \E name \in {Null, <<"a">>}, pin \in {Null, <<"1", "2", "3", "4">>} :
          createProfile(name, pin, <<0>>) /\ LeavesAnId /\ Raced
    \/ \E profileId \in CallerIds, name \in {Null, <<"b">>} :
          renameProfileGet(profileId, name) /\ Raced
    \/ \E c \in calls : renameProfilePut(c) /\ Raced
    \/ \E profileId \in CallerIds, pin \in {Null, <<"4", "3", "2", "1">>} :
          setProfilePinGet(profileId, pin) /\ Raced
    \/ \E c \in calls : setProfilePinPut(c, <<255>>) /\ Raced
    \/ \E profileId \in CallerIds : clearProfilePinGet(profileId) /\ Raced
    \/ \E c \in calls : clearProfilePinPut(c) /\ Raced

SpecRace == Init /\ [][NextRace]_vars

\* the attempts App.submitQuiz is called with: score and totalQuestions
Attempted == { <<6, 10>>, <<3, 5>>, <<9, 10>>, <<0, 0>> }

\* one session of the application: before a profile is ready the store is
\* filled, one method at a time (profiles, attempts of earlier sessions, an
\* imported snapshot); then a stored profile is made ready and quizzes are
\* submitted for it, a submission starting while earlier ones are awaited
NextApp ==
    \/ /\ Idle
       /\ app.profile = Null
       /\ Still
       /\ \/ \E name \in {Null, <<"a">>} : createProfile(name, Null, << >>) /\ LeavesAnId
          \/ \E r \in profiles, quizId \in QuizIds :
                submitQuizResult(r.profileId, quizId, 6, 10) /\ LeavesAKey
          \/ \E r \in profiles : importProfileData(8, r.profileId)
    \/ \E c \in calls : importOpenTx(c) /\ LeavesAKey /\ Still
    \/ importProfilePut /\ Still
    \/ importProgressPut /\ Still
    \/ importQuizAdd /\ Still
    \/ TxCommit /\ Still
    \/ TxAbort /\ Still
    \/ \E r \in profiles :
          /\ Idle
          /\ app.profile = Null
          /\ onProfileReady(Some(r))
          /\ UNCHANGED <<stores, nextId, now, tx, calls, last, curPin, file, db, gate,
                         activeProfileId, lin>>
    \/ \E quizId \in QuizIds, attempt \in Attempted :
          submitQuiz(quizId, attempt[1], attempt[2])
    \/ setQuizResults
    \/ Tick /\ Still

SpecApp == Init /\ [][NextApp]_vars

\* the profile store, one method at a time, with verifyProfilePin called for
\* every profileId, stored or not, and every pin
NextVerify ==
    \/ NextPins
    \/ \E profileId \in CallerIds, pin \in PinInputs :
          Idle /\ verifyProfilePinCalled(profileId, pin) /\ Still

SpecVerify == Init /\ [][NextVerify]_vars

\* the profile gate from its mount on: its handlers, a handler starting while
\* others are suspended, over the store methods they call
NextGate ==
    \/ mount
    \/ \E profileId \in ProfileIds : handleSelect(profileId)
    \/ \E h \in gate.handlers : handleSelectGot(h)
    \/ \E pin \in {<<"1", "2", "3", "4">>, <<"4", "3", "2", "1">>} : handleUnlock(pin)
    \/ \E h \in gate.handlers : handleUnlockVerified(h)
    \/ \E h \in gate.handlers : handleUnlockGot(h)
    \/ \E name \in {Null, <<"a">>}, pin \in {Null, <<"1", "2", "3", "4">>} :
          handleCreate(name, pin, <<0>>)
    \/ \E h \in gate.handlers : refreshedThenSelect(h)
    \/ \E profileId \in ProfileIds : handleDelete(profileId)
    \/ \E h \in gate.handlers : handleDeleteRefreshed(h)
    \/ \E data \in {3, 6} : handleImportFile(data)
    \/ \E c \in calls : importOpenTx(c) /\ Still
    \/ deleteProfileRow /\ Still
    \/ deleteProgressSweep /\ Still
    \/ deleteQuizSweep /\ Still
    \/ importProfilePut /\ Still
    \/ importProgressPut /\ Still
    \/ importQuizAdd /\ Still
    \/ commitSeen
    \/ abortSeen

SpecGate == Init /\ [][NextGate]_vars

\* the same with the page loaded again at any time no store method runs
NextSession ==
    \/ NextGate
    \/ reload

SpecSession == Init /\ [][NextSession]_vars

\* the database handle: any callers, any order, before and after the open settles
NextDb ==
    \/ \E caller \in Callers : getDb(caller)
    \/ openDBResolves
    \/ openDBRejects

SpecDb == Init /\ [][NextDb]_vars

(***************************************************************************)
(* Cascading delete.                                                       *)
(***************************************************************************)
\* the rows of a store that reference profileId
RowsOf(rows, profileId) == { r \in rows : r.profileId = profileId }

\* C1: once deleteProfile(p) has completed successfully, getProfile(p) finds
\* nothing, listProfiles() does not contain p, no progress row and no
\* quizResults row has profileId p, and getProgressMap(p) is empty.
C1_DeleteRemovesEverything ==
    (last.op = "deleteProfile" /\ last.outcome = "ok") =>
        /\ getProfile(last.pid) = Null
        /\ \A r \in listProfiles : r.profileId # last.pid
        /\ RowsOf(progress, last.pid) = {}
        /\ RowsOf(quizResults, last.pid) = {}
        /\ getProgressMap(progress, last.pid) = {}

\* a delete of a profile that existed has completed; it removed quiz rows and
\* left the rows of the other profile id in place
C1_Witness ==
    /\ last.op = "deleteProfile"
    /\ last.outcome = "ok"
    /\ last.pid <= nextId
    /\ Cardinality(quizResults) < keyGen
    /\ progress # {}
    /\ quizResults # {}

\* C2: while a deleteProfile(p) is under way the committed collections do
\* not change; if it fails they are exactly as before the call; if it commits,
\* the profile row and every progress and quizResults row of p go together
\* and nothing else changes.  No step shows the profile row gone with rows of
\* p remaining, or the reverse.
C2_DeleteAllOrNothing ==
    [][ tx.op = "deleteProfile" =>
          \/ /\ tx'.op = "deleteProfile"
             /\ stores' = stores
          \/ /\ tx' = NoTx
             /\ last'.outcome = "aborted"
             /\ stores' = stores
          \/ /\ tx' = NoTx
             /\ last'.outcome = "ok"
             /\ profiles' = profiles \ RowsOf(profiles, tx.pid)
             /\ progress' = progress \ RowsOf(progress, tx.pid)
             /\ quizResults' = quizResults \ RowsOf(quizResults, tx.pid)
             /\ keyGen' = keyGen ]_vars

\* a delete failed after the profile existed with progress and quiz rows:
\* all of them are still there
C2_Witness ==
    /\ last.op = "deleteProfile"
    /\ last.outcome = "aborted"
    /\ getProfile(last.pid) # Null
    /\ RowsOf(progress, last.pid) # {}
    /\ RowsOf(quizResults, last.pid) # {}

\* C3: every progress row and every quizResults row carries the profileId of
\* an existing row of profiles.
C3_ReferentialIntegrity ==
    \A r \in progress \cup quizResults : getProfile(r.profileId) # Null

(***************************************************************************)
(* PINs and validation.                                                    *)
(***************************************************************************)
\* C4: every stored profile has pinSalt and pinHash both null or both present.
C4_PinFieldsTogether ==
    \A r \in profiles : (r.pinSalt = Null) <=> (r.pinHash = Null)

\* a setProfilePin has completed while a profile carries both fields
C4_Witness ==
    /\ last.op = "setProfilePin"
    /\ last.outcome = "ok"
    /\ \E r \in profiles : r.profileId = last.pid /\ r.pinSalt # Null /\ r.pinHash # Null

\* the name is empty or whitespace only
Blank(name) == \A i \in 1..Len(name) : name[i] = " "

\* the pin is absent or has at least 4 characters
PinAcceptable(pin) == pin = Null \/ Len(pin) >= 4

\* C5: createProfile with a valid name and a pin that is absent or has length
\* >= 4 succeeds, and verifyProfilePin(id, pin) with the same pin is then true;
\* for a profile with no PIN set verifyProfilePin is true for any attempt.
C5_CreateThenVerify ==
    /\ [][ \A name \in NameInputs, pin \in PinInputs : \A bytes \in SaltsFor(pin) :
             (createProfile(name, pin, bytes) /\ ~Blank(name) /\ PinAcceptable(pin)) =>
                /\ last'.op = "createProfile"
                /\ last'.outcome = "ok"
                /\ verifyProfilePin(profiles', last'.pid, pin) ]_vars
    /\ [](\A r \in profiles : r.pinHash = Null =>
             \A attempt \in PinInputs : verifyProfilePin(profiles, r.profileId, attempt))

\* a profile was just created with a pin, and that pin verifies
C5_Witness ==
    /\ last.op = "createProfile"
    /\ last.outcome = "ok"
    /\ Truthy(curPin[last.pid])
    /\ \E r \in profiles : r.profileId = last.pid /\ r.pinHash # Null
    /\ verifyProfilePin(profiles, last.pid, curPin[last.pid])

\* C6: for a profile with a PIN set, verifyProfilePin is false for every
\* attempt other than the pin set last, the pin it replaced included.
C6_WrongPinRejected ==
    \A r \in profiles :
        Truthy(curPin[r.profileId]) =>
            \A wrong \in PinInputs :
                wrong # curPin[r.profileId] => ~verifyProfilePin(profiles, r.profileId, wrong)

\* a setProfilePin has replaced the PIN of a profile, and another pin is refused
C6_Witness ==
    /\ last.op = "setProfilePin"
    /\ last.arg = "replaced"
    /\ last.outcome = "ok"
    /\ getProfile(last.pid) # Null
    /\ \E wrong \in PinInputs :
          /\ PinAcceptable(wrong)
          /\ wrong # curPin[last.pid]
          /\ ~verifyProfilePin(profiles, last.pid, wrong)

\* C7: no profile row carries a PIN derived from a pin shorter than 4
\* characters: no such pin unlocks a PIN-protected profile.
C7_ShortPinNeverStored ==
    \A r \in profiles : \A pin \in PinInputs :
        (Truthy(pin) /\ Len(pin) < 4) =>
            ~(r.pinHash # Null /\ verifyProfilePin(profiles, r.profileId, pin))

\* C8: createProfile or renameProfile with an empty or whitespace-only name,
\* and setProfilePin with a pin shorter than 4 characters, fail with a
\* validation error, suspend nothing and leave the three collections unchanged.
C8_ValidationBeforeWrite ==
    [][ /\ \A name \in NameInputs, pin \in PinInputs : \A bytes \in SaltsFor(pin) :
              (Blank(name) /\ createProfile(name, pin, bytes)) =>
                  (last'.outcome = "validation" /\ stores' = stores /\ calls' = calls)
        /\ \A profileId \in ProfileIds, name \in NameInputs :
              (Blank(name) /\ renameProfileGet(profileId, name)) =>
                  (last'.outcome = "validation" /\ stores' = stores /\ calls' = calls)
        /\ \A profileId \in ProfileIds, pin \in PinInputs :
              (Len(pin) < 4 /\ setProfilePinGet(profileId, pin)) =>
                  (last'.outcome = "validation" /\ stores' = stores /\ calls' = calls)
      ]_vars

\* a renameProfile of an existing profile was refused for its name
C8_Witness ==
    /\ last.op = "renameProfile"
    /\ last.outcome = "validation"
    /\ getProfile(last.pid) # Null

(***************************************************************************)
(* The progress store.                                                     *)
(***************************************************************************)
\* the progress rows for one (profileId, lessonId)
KeyRows(rows, profileId, lessonId) ==
    { r \in rows : r.profileId = profileId /\ r.lessonId = lessonId }

\* C9: the progress collection holds at most one row per (profileId,
\* lessonId), in the committed store and in the copy a transaction works on.
C9_OneRowPerLesson ==
    /\ \A r1, r2 \in progress :
          (r1.profileId = r2.profileId /\ r1.lessonId = r2.lessonId) => r1 = r2
    /\ tx # NoTx =>
          \A r1, r2 \in tx.progress :
              (r1.profileId = r2.profileId /\ r1.lessonId = r2.lessonId) => r1 = r2

\* an import has committed over a lesson that was marked before: the lesson
\* has one row, the one of the snapshot's last entry for it, beside other rows
C9_Witness ==
    /\ last.op = "importProfileData"
    /\ last.outcome = "ok"
    /\ now > 1
    /\ KeyRows(progress, last.pid, "l1") =
          { [profileId |-> last.pid, lessonId |-> "l1",
             completed |-> FALSE, completedAt |-> Null] }
    /\ Cardinality(progress) >= 3

\* the call (op, profileId, lessonId) settled last, successfully
SettledLast(op, profileId, lessonId) ==
    last.op = op /\ last.pid = profileId /\ last.arg = lessonId /\ last.outcome = "ok"

\* the rows without their completedAt
Flags(rows) ==
    { [profileId |-> r.profileId, lessonId |-> r.lessonId, completed |-> r.completed] :
        r \in rows }

\* C10: markLessonComplete / markLessonIncomplete leave exactly one row for
\* (profileId, lessonId), which the call alone determines (completed = true,
\* resp. completed = false and completedAt = null), and touch no other row;
\* called again right after itself, each leaves the completed flags (for
\* markLessonIncomplete the whole collection) as the first call left them.
C10_MarkIdempotent ==
    [][ \A profileId \in ProfileIds, lessonId \in LessonIds :
          /\ markLessonComplete(profileId, lessonId) =>
                /\ KeyRows(progress', profileId, lessonId) =
                      { [profileId |-> profileId, lessonId |-> lessonId,
                         completed |-> TRUE, completedAt |-> Some(now)] }
                /\ progress' \ KeyRows(progress', profileId, lessonId) =
                      progress \ KeyRows(progress, profileId, lessonId)
                /\ SettledLast("markLessonComplete", profileId, lessonId) =>
                      Flags(progress') = Flags(progress)
          /\ markLessonIncomplete(profileId, lessonId) =>
                /\ KeyRows(progress', profileId, lessonId) =
                      { [profileId |-> profileId, lessonId |-> lessonId,
                         completed |-> FALSE, completedAt |-> Null] }
                /\ progress' \ KeyRows(progress', profileId, lessonId) =
                      progress \ KeyRows(progress, profileId, lessonId)
                /\ SettledLast("markLessonIncomplete", profileId, lessonId) =>
                      progress' = progress
      ]_vars

\* markLessonComplete was called twice in a row for a lesson, the second time
\* at a later clock reading, beside a row of another lesson
C10_Witness ==
    /\ last.op = "markLessonComplete"
    /\ last.rep
    /\ now > 1
    /\ KeyRows(progress, last.pid, last.arg) =
          { [profileId |-> last.pid, lessonId |-> last.arg,
             completed |-> TRUE, completedAt |-> Some(now)] }
    /\ KeyRows(progress, last.pid, "l2") # {}

(***************************************************************************)
(* The quiz-result store.                                                  *)
(***************************************************************************)
\* C11: the quiz-result log is append-only.  Every submitQuizResult adds
\* exactly one row, for its profile and quiz, whose id is greater than the id
\* of every row the store holds or has held (none of them is above the key
\* generator, which never goes back), also when the quiz was submitted before;
\* and no step other than the commit of a deleteProfile changes or removes a
\* quizResults row.
C11_AppendOnly ==
    /\ [][ /\ \A profileId \in ProfileIds, quizId \in QuizIds, score \in Scores :
                submitQuizResult(profileId, quizId, score, 10) =>
                    \E r \in quizResults' :
                        /\ quizResults' = quizResults \cup {r}
                        /\ Cardinality(quizResults') = Cardinality(quizResults) + 1
                        /\ r.profileId = profileId
                        /\ r.quizId = quizId
                        /\ r.id > keyGen
                        /\ r.id = keyGen'
                        /\ \A old \in quizResults : old.id < r.id
          /\ keyGen' >= keyGen
          /\ tx.op # "deleteProfile" => quizResults \subseteq quizResults'
        ]_vars
    /\ [](\A r \in quizResults : r.id <= keyGen)

\* a quiz was submitted again for the same profile after an import had added
\* a row and a delete had removed rows: both attempts are there, the new one
\* under the highest id handed out
C11_Witness ==
    /\ last.op = "submitQuizResult"
    /\ \E r1, r2 \in quizResults :
          /\ r1.profileId = r2.profileId
          /\ r1.quizId = r2.quizId
          /\ r1.id < r2.id
          /\ r2.id = keyGen
          /\ r2.profileId = last.pid
    /\ Cardinality(quizResults) < keyGen

\* the rows of profileId for quizId that carry a percentage
Attempts(rows, profileId, quizId) ==
    { r \in byProfileId(rows, profileId) : r.quizId = quizId /\ "percentage" \in DOMAIN r }

\* C12: getBestQuizScores(profileId) has an entry exactly for the quizIds that
\* have a row of that profile, and the percentage of the entry is the maximum
\* of the percentages of the rows of that profile and quiz.
C12_BestIsMaximum ==
    \A profileId \in ProfileIds :
        LET bestScores == getBestQuizScores(quizResults, profileId)
        IN  /\ DOMAIN bestScores = { r.quizId : r \in byProfileId(quizResults, profileId) }
            /\ \A quizId \in DOMAIN bestScores :
                  Attempts(quizResults, profileId, quizId) # {} =>
                      /\ \E r \in Attempts(quizResults, profileId, quizId) :
                            r.percentage = bestScores[quizId].percentage
                      /\ \A r \in Attempts(quizResults, profileId, quizId) :
                            r.percentage <= bestScores[quizId].percentage

C14_ImportAtomic ==
    [][ ( /\ tx.op = "importProfileData"
          /\ tx' = NoTx
          /\ last'.outcome = "aborted" ) =>
            /\ GetProfile(profiles', tx.pid) = tx.prior
            /\ progress' = progress
            /\ quizResults' = quizResults
      ]_vars

\* C15: importProfileData of a snapshot whose version is not 1, or that has no
\* profile name, fails with an error, for a new profile and for an overwrite
\* alike, and changes nothing: the stores are as before, nothing is
\* suspended and no transaction is opened.
C15_RejectedImportWritesNothing ==
    [][ \A data \in SnapshotIds, target \in {0} \cup ProfileIds :
          ( /\ Snapshots[data].version # 1 \/ Snapshots[data].profile.name = Null
            /\ importProfileData(data, target) ) =>
              /\ last'.op = "importProfileData"
              /\ last'.outcome \in {"version", "validation"}
              /\ stores' = stores
              /\ calls' = calls
              /\ tx' = tx
      ]_vars

\* an import over an existing, PIN-protected profile was refused for its version
C15_Witness ==
    /\ last.op = "importProfileData"
    /\ last.outcome = "version"
    /\ \E r \in profiles : r.profileId = last.pid /\ r.pinHash # Null

\* C16: importProfileData with an overwriteProfileId that has no profile row
\* fails with not-found and changes nothing.  When the import over a profile
\* that exists commits, the profiles collection has the same rows as before
\* except that the name of the target is the one of the snapshot and its
\* updatedAt the time of the import: its profileId, createdAt, pinSalt and
\* pinHash, and every other profile row, are as they were, and no row is new.
C16_OverwriteKeepsIdentity ==
    [][ /\ \A data \in SnapshotIds, target \in ProfileIds :
              ( /\ Snapshots[data].version = 1
                /\ Snapshots[data].profile.name # Null
                /\ getProfile(target) = Null
                /\ importProfileData(data, target) ) =>
                  /\ last'.op = "importProfileData"
                  /\ last'.outcome = "notfound"
                  /\ stores' = stores
                  /\ calls' = calls
                  /\ tx' = tx
        /\ ( /\ tx.op = "importProfileData"
              /\ tx.prior # Null
              /\ tx' = NoTx
              /\ last'.outcome = "ok" ) =>
                /\ { r.profileId : r \in profiles' } = { r.profileId : r \in profiles }
                /\ Cardinality(profiles') = Cardinality(profiles)
                /\ \A r \in profiles : r.profileId # tx.pid => r \in profiles'
                /\ \A r \in profiles : r.profileId = tx.pid =>
                      \E w \in profiles' :
                          /\ w.profileId = r.profileId
                          /\ w.createdAt = r.createdAt
                          /\ w.pinSalt = r.pinSalt
                          /\ w.pinHash = r.pinHash
                          /\ w.name = Snapshots[tx.data].profile.name
                          /\ w.updatedAt >= r.updatedAt
                          /\ w.updatedAt <= now
      ]_vars

\* an import has overwritten, at a later clock reading, the name of a profile
\* that carries a PIN
C16_Witness ==
    /\ last.op = "importProfileData"
    /\ last.outcome = "ok"
    /\ \E r \in profiles :
          /\ r.profileId = last.pid
          /\ r.name = <<"b">>
          /\ r.updatedAt > r.createdAt
          /\ r.pinHash # Null
          /\ r.pinSalt # Null
    /\ Cardinality(profiles) = 1

\* C17: every import that commits adds one quizResults row per quiz entry of
\* the snapshot to its target; and when the same snapshot is imported into
\* the same profile again, right after an import of it has committed, the
\* progress collection is left exactly as the first import left it, while the
\* quiz rows of the snapshot are added a second time.
C17_ImportTwice ==
    [][ ( /\ tx.op = "importProfileData"
          /\ tx' = NoTx
          /\ last'.outcome = "ok" ) =>
            /\ Cardinality(byProfileId(quizResults', tx.pid)) =
                  Cardinality(byProfileId(quizResults, tx.pid)) + QuizEntries(tx.data)
            /\ last'.rep =>
                  /\ tx.prior # Null
                  /\ progress' = progress
                  /\ Cardinality(byProfileId(quizResults', tx.pid)) >= 2 * QuizEntries(tx.data)
      ]_vars

\* a snapshot with two progress entries for one lesson and a quiz entry has
\* been imported a second time over the same profile: one progress row, two
\* quiz rows
C17_Witness ==
    /\ last.op = "importProfileData"
    /\ last.outcome = "ok"
    /\ last.rep
    /\ last.arg = "1"
    /\ Cardinality(byProfileId(progress, last.pid)) = 1
    /\ Cardinality(byProfileId(quizResults, last.pid)) = 2
    /\ \A r \in byProfileId(quizResults, last.pid) : r.quizId = "q1" /\ r.score = 6

\* the names of the PIN fields of a profile row
PinFields == {"pinSalt", "pinHash"}

\* C18: no exported file carries a pinSalt or a pinHash, in the snapshot or in
\* its profile object, whether or not the exported profile has a PIN; and
\* the profile row an import creates has pinSalt = pinHash = null, when it is
\* created and when the import has committed.
C18_PinsStayHome ==
    /\ [](file # Null =>
            /\ DOMAIN file[1].data \cap PinFields = {}
            /\ DOMAIN file[1].data.profile \cap PinFields = {}
            /\ \A i \in 1..Len(file[1].data.progress) :
                  DOMAIN file[1].data.progress[i] \cap PinFields = {}
            /\ \A i \in 1..Len(file[1].data.quizResults) :
                  DOMAIN file[1].data.quizResults[i] \cap PinFields = {})
    /\ [][ /\ \A c \in calls' \ calls :
                (c.op = "importProfileData" /\ c.profile = Null) =>
                    \E r \in profiles' \ profiles :
                        /\ r.profileId = c.pid
                        /\ r.pinSalt = Null
                        /\ r.pinHash = Null
          /\ ( /\ tx.op = "importProfileData"
                /\ tx.prior = Null
                /\ tx' = NoTx
                /\ last'.outcome = "ok" ) =>
                  \E r \in profiles' :
                      /\ r.profileId = tx.pid
                      /\ r.pinSalt = Null
                      /\ r.pinHash = Null
        ]_vars

\* the file of a PIN-protected profile has been imported into a new profile,
\* which has no PIN
C18_Witness ==
    /\ last.op = "importProfileData"
    /\ last.outcome = "ok"
    /\ last.arg = "0"
    /\ file # Null
    /\ last.pid # file[1].of
    /\ \E r \in profiles : r.profileId = file[1].of /\ r.pinHash # Null /\ r.pinSalt # Null
    /\ \E r \in profiles : r.profileId = last.pid /\ r.pinHash = Null /\ r.pinSalt = Null

(***************************************************************************)
(* Not-found errors and frames of the profile methods.                     *)
(***************************************************************************)
\* the step settles with not-found and writes nothing
NotFoundNoWrite ==
    /\ last'.outcome = "notfound"
    /\ stores' = stores
    /\ calls' = calls
    /\ tx' = tx

\* the step replaces the profile row of profileId by one that differs from it
\* at most in the fields named, with updatedAt the current time, and leaves
\* every other row of the three collections alone
PutsOnly(profileId, fields) ==
    /\ getProfile(profileId) # Null
    /\ GetProfile(profiles', profileId) # Null
    /\ LET old == getProfile(profileId)[1]
           new == GetProfile(profiles', profileId)[1]
       IN  /\ new.updatedAt = now
           /\ \A f \in DOMAIN old \ (fields \cup {"updatedAt"}) : new[f] = old[f]
           /\ DOMAIN new = DOMAIN old
           /\ profiles' \ {new} = profiles \ {old}
    /\ progress' = progress
    /\ quizResults' = quizResults
    /\ keyGen' = keyGen
    /\ last'.outcome = "ok"

\* C19: renameProfile and setProfilePin with valid arguments, and
\* clearProfilePin, fail with not-found for a profileId that has no row and
\* leave the stores as they are (no row is created); when they succeed they
\* set updatedAt to the current time and change, beside it, only the name
\* (renameProfile) resp. pinSalt and pinHash (setProfilePin, clearProfilePin)
\* of that one profile row.
C19_NotFoundAndFrame ==
    [][ /\ \A profileId \in ProfileIds :
              getProfile(profileId) = Null =>
                  /\ \A name \in NameInputs :
                        (~Blank(name) /\ renameProfileGet(profileId, name)) =>
                            NotFoundNoWrite
                  /\ \A pin \in PinInputs :
                        (Len(pin) >= 4 /\ setProfilePinGet(profileId, pin)) =>
                            NotFoundNoWrite
                  /\ clearProfilePinGet(profileId) => NotFoundNoWrite
        /\ \A c \in calls :
              /\ renameProfilePut(c) => PutsOnly(c.pid, {"name"})
              /\ (\E bytes \in SaltBytes : setProfilePinPut(c, bytes)) =>
                    PutsOnly(c.pid, PinFields)
              /\ clearProfilePinPut(c) =>
                    /\ PutsOnly(c.pid, PinFields)
                    /\ GetProfile(profiles', c.pid)[1].pinSalt = Null
                    /\ GetProfile(profiles', c.pid)[1].pinHash = Null
      ]_vars

\* a PIN-protected profile has been renamed at a later clock reading: the
\* name and updatedAt are new, the PIN is still there
C19_Witness ==
    /\ last.op = "renameProfile"
    /\ last.outcome = "ok"
    /\ \E r \in profiles :
          /\ r.profileId = last.pid
          /\ r.name = <<"b">>
          /\ r.updatedAt = now
          /\ r.updatedAt > r.createdAt
          /\ r.pinHash # Null
          /\ Truthy(curPin[r.profileId])
          /\ verifyProfilePin(profiles, r.profileId, curPin[r.profileId])

\* C20: a deleteProfile of a profileId that has no profile row ends with an
\* error, never normally, and progress and quizResults are as they were.
C20_DeleteUnknownFails ==
    [][ ( /\ tx.op = "deleteProfile"
          /\ tx.prior = Null
          /\ tx' = NoTx ) =>
            /\ last'.op = "deleteProfile"
            /\ last'.outcome \in {"notfound", "aborted"}
            /\ progress' = progress
            /\ quizResults' = quizResults
      ]_vars

(***************************************************************************)
(* The database handle.                                                    *)
(***************************************************************************)
\* C21: getDb starts the database open at most once, and every caller holds the
\* same handle, the promise the module holds, whether it called before the open
\* settled or after
C21_OpenedOnce ==
    /\ db.opens <= 1
    /\ \A caller \in Callers :
          db.handles[caller] # Null => db.handles[caller] = db.dbPromise

\* three callers hold a handle and the open they share is still pending
C21_Witness ==
    /\ db.settled = "pending"
    /\ Cardinality({caller \in Callers : db.handles[caller] # Null}) >= 3
    /\ db.opens = 1

(***************************************************************************)
(* The percentage of a stored attempt.                                     *)
(***************************************************************************)
\* C22: every stored quizResults row, added by submitQuizResult or by
\* importProfileData, has a percentage, which is an integer in 0..100 and equals
\* round(100 * score / totalQuestions)
C22_PercentageStored ==
    \A r \in quizResults :
        /\ "percentage" \in DOMAIN r
        /\ r.percentage \in 0..100
        /\ r.totalQuestions # 0
        /\ r.percentage = RoundPercent(r.score, r.totalQuestions)

(***************************************************************************)
(* The stored name.                                                        *)
(***************************************************************************)
\* C23: in every reachable state the name of every stored profile is a non-empty
\* string without leading or trailing whitespace, whichever of createProfile,
\* renameProfile and importProfileData wrote it
C23_NameTrimmed ==
    \A r \in profiles :
        /\ r.name # << >>
        /\ Trim(r.name) = r.name

(***************************************************************************)
(* Calls on one profile that overlap.                                      *)
(***************************************************************************)
\* C24: renameProfile, setProfilePin and clearProfilePin on one profile are
\* linearizable: once every call has returned, the stored profile (its name and
\* the pin that unlocks it) is what the calls leave when they take effect one
\* after another in some order that keeps a call that returned before another
\* started ahead of it
C24_Linearizable ==
    calls = {} =>
        \A r \in profiles : Abstract(r) \in {x.st : x \in lin[r.profileId]}

(***************************************************************************)
(* Profiles beside each other.                                             *)
(***************************************************************************)
\* the rows of a store that belong to another profile than profileId
Others(rows, profileId) == { r \in rows : r.profileId # profileId }

\* the step leaves the rows of every other profile than profileId as they are
OthersKept(profileId) ==
    /\ Others(profiles', profileId) = Others(profiles, profileId)
    /\ Others(progress', profileId) = Others(progress, profileId)
    /\ Others(quizResults', profileId) = Others(quizResults, profileId)

\* C25: deleteProfile(p), markLessonComplete(p, _), markLessonIncomplete(p, _),
\* submitQuizResult(p, ...) and importProfileData into p leave every profile,
\* progress and quizResults row of another profile as it is, and
\* getProgressMap(q) and getBestQuizScores(q) are made of rows of q alone
C25_ProfileIsolation ==
    /\ [][ /\ (tx # NoTx /\ tx' = NoTx) => OthersKept(tx.pid)
           /\ ( /\ tx = NoTx /\ tx' = NoTx /\ calls' = calls
                /\ last'.op \in {"markLessonComplete", "markLessonIncomplete",
                                 "submitQuizResult"} ) => OthersKept(last'.pid)
           /\ \A c \in calls' \ calls : OthersKept(c.pid) ]_vars
    /\ [](\A q \in ProfileIds :
            /\ getProgressMap(progress, q) = getProgressMap(RowsOf(progress, q), q)
            /\ getBestQuizScores(quizResults, q) =
                  getBestQuizScores(RowsOf(quizResults, q), q))

\* deleteProfile has committed for one profile, and another one has its
\* progress row and its quiz row
C25_Witness ==
    /\ last.op = "deleteProfile"
    /\ last.outcome = "ok"
    /\ \E q \in ProfileIds \ {last.pid} :
          /\ getProgressMap(progress, q) # {}
          /\ DOMAIN getBestQuizScores(quizResults, q) # {}

(***************************************************************************)
(* Calls that outlive the profile.                                         *)
(***************************************************************************)
\* C26: a deleted profile is not resurrected.  A renameProfile, setProfilePin or
\* clearProfilePin call that read the profile, and an importProfileData call
\* that passed its existence check (or made the profile), before deleteProfile
\* committed, finds no row when it writes; its write then leaves the profile
\* without a row, and the import adds no progress and no quizResults row for it
C26_NoResurrection ==
    [][ /\ \A c \in calls \ calls' :
              ( /\ c.op \in {"renameProfile", "setProfilePin", "clearProfilePin"}
                /\ getProfile(c.pid) = Null ) => GetProfile(profiles', c.pid) = Null
        /\ ( /\ tx.op = "importProfileData"
             /\ tx' = NoTx
             /\ getProfile(tx.pid) = Null )
            => /\ GetProfile(profiles', tx.pid) = Null
               /\ RowsOf(progress', tx.pid) \subseteq RowsOf(progress, tx.pid)
               /\ RowsOf(quizResults', tx.pid) \subseteq RowsOf(quizResults, tx.pid) ]_vars

(***************************************************************************)
(* The best scores the application shows.                                  *)
(***************************************************************************)
\* C27: once the map loaded with getBestQuizScores(p) is set and every
\* App.submitQuiz call for p made since has applied its update, the cached
\* quizResults map equals what getBestQuizScores(p) returns from the store,
\* entry for entry, also when a later attempt ties the best percentage
C27_CacheIsStoreView ==
    (app.profile # Null /\ app.awaiting = << >>) =>
        app.quizResults = getBestQuizScores(quizResults, app.profile[1].profileId)

\* the profile has two attempts at one quiz with the same percentage and
\* different scores, the later one submitted through App.submitQuiz last, and
\* the cached entry is the earlier one
C27_Witness ==
    /\ app.profile # Null
    /\ app.awaiting = << >>
    /\ \E r1, r2 \in byProfileId(quizResults, app.profile[1].profileId) :
          /\ r1.quizId = r2.quizId
          /\ r1.id < r2.id
          /\ r2.id = keyGen
          /\ last.op = "submitQuizResult"
          /\ PercentageOf(r1) = PercentageOf(r2)
          /\ r1.score # r2.score
          /\ r1.quizId \in DOMAIN app.quizResults
          /\ app.quizResults[r1.quizId].percentage = PercentageOf(r1)
          /\ app.quizResults[r1.quizId].score = r1.score

(***************************************************************************)
(* The profile gate.                                                       *)
(***************************************************************************)
\* C28: ProfileGate calls onProfileReady for a profile whose stored pinHash is
\* set only after a verifyProfilePin call for that profile returned true; a
\* handleSelect that finds the profile PIN-protected (called by the button, by
\* handleCreate or by handleImportFile) and the effect on mount, which restores
\* the active pointer, make no profile ready
C28_PinGate ==
    [][ /\ ( /\ app'.profile # app.profile
             /\ app'.profile # Null
             /\ Truthy(app'.profile[1].pinHash) )
            => app'.profile[1].profileId \in gate.verified
        /\ \A h \in gate.handlers \ gate'.handlers :
              ( /\ ~gate'.loading
                /\ h.h # "handleUnlock"
                /\ h.pc = "getProfile"
                /\ getProfile(h.pid) # Null
                /\ Truthy(getProfile(h.pid)[1].pinHash) ) => app' = app
        /\ (gate.loading /\ ~gate'.loading) => app' = app ]_vars

\* a PIN-protected profile is ready: it was restored as the selected profile
\* on mount or selected, and handleUnlock verified its pin
C28_Witness ==
    /\ app.profile # Null
    /\ Truthy(app.profile[1].pinHash)
    /\ app.profile[1].profileId \in gate.verified
    /\ gate.selectedProfileId = app.profile[1].profileId

\* C29: starting with the active pointer unset, once every ProfileGate handler
\* started (handleSelect, handleCreate, handleDelete, handleImportFile) has run
\* to completion, whatever their interleaving, the active pointer is unset or
\* holds the profileId of a stored profile
C29_PointerNamesAProfile ==
    (gate.handlers = {} /\ tx = NoTx /\ calls = {}) =>
        (activeProfileId = 0 \/ getProfile(activeProfileId) # Null)

(***************************************************************************)
(* verifyProfilePin for a profile that is not stored.                      *)
(***************************************************************************)
\* C30: verifyProfilePin with a profileId that has no profile, never created or
\* deleted, resolves to false for every pin, throws nothing and leaves every
\* store as it is
C30_VerifyUnknownIsFalse ==
    [][ ( /\ last' # last
          /\ last'.op = "verifyProfilePin"
          /\ getProfile(last'.pid) = Null )
        => /\ last'.outcome = "false"
           /\ UNCHANGED <<stores, nextId, curPin>> ]_vars

\* verifyProfilePin has resolved to false for a profile that was created with
\* a PIN and deleted since
C30_Witness ==
    /\ last.op = "verifyProfilePin"
    /\ last.outcome = "false"
    /\ last.pid \in 1..nextId
    /\ Truthy(curPin[last.pid])
    /\ getProfile(last.pid) = Null

====
